---- MODULE Spec2Model ----
(***************************************************************************)
(* Editing state engine of the YOLO label editor: StateManager (per-image  *)
(* working boxes, original snapshot, undo/redo stacks, modified set) and   *)
(* the LabelParser clone helpers it uses; LabelParser.parse and serialize;  *)
(* the LRUCache that holds decoded bitmaps; and the handlers of main.js    *)
(* that drive them through the DatasetLoader (selectImage, loadFromDrop,   *)
(* loadFromFolderPicker, the pointer and key handlers, doSaveCurrent,      *)
(* doSaveAll, delete/undo/redo).                                           *)
(*                                                                         *)
(* A box is the record [id, classId, deleted, selected]; classId stands    *)
(* for the fields no StateManager method writes (classId, xCenter, yCenter, *)
(* width, height, lineIndex).  An Action is [type, boxes]; its timestamp   *)
(* (Date.now()) is never read by the code and is left out.                 *)
(***************************************************************************)
EXTENDS Integers, Sequences, FiniteSets, TLC

VARIABLES
    currentIndex,    \* StateManager.currentIndex
    imageStates,     \* StateManager.imageStates: Map index -> ImageEditState
    globalModified,  \* StateManager.globalModified: Set of indices
    lastOp,          \* name of the method called last
    lastRet,         \* the value that call returned ("void" when it returns nothing)
    cycle,           \* history: progress of an init/delete/undo/redo cycle
    heap,            \* the box objects of the reference-level session, by address
    hst,             \* its ImageEditState: arrays of addresses into heap
    handed,          \* the array a caller of that session holds (passed in or returned)
    created,         \* history: the number of box objects created in that session
    labelCache,      \* DatasetLoader.labelCache: Map index -> boxes
    datasetCount,    \* DatasetLoader.index.length (datasetLoader.count)
    uiIndex,         \* main.js currentIndex
    pending,         \* main.js: the asynchronous calls suspended at an await
    readOnly,        \* FileManager.isReadOnly
    labelHandles,    \* the indices of the DatasetLoader.index entries that have a labelHandle
    currentBitmap,   \* main.js currentBitmap (0 for null)
    selectionRect,   \* main.js selectionRect # null: a selection rectangle is being drawn
    reads,           \* DatasetLoader.loadImage calls waiting for the file read
    nextBitmap,      \* the number of bitmaps created so far, plus one
    imageCache,      \* LRUCache.cache: Map key -> value, in insertion order
    cacheMaxSize,    \* LRUCache.maxSize
    closeLog,        \* the values whose close() was called, in call order
    lastUsed,        \* history: per key, the time of its last get (hit) or set
    clock,           \* history: the number of get (hit) and set calls so far
    labelText,       \* a label file's content: its lines, each a sequence of tokens
    labelBoxes,      \* the boxes LabelParser.parse returned or serialize is given
    nextLabelId      \* the number of ids crypto.randomUUID() has handed out, plus one

smVars == <<currentIndex, imageStates, globalModified>>
refVars == <<heap, hst, handed, created>>
lruVars == <<imageCache, cacheMaxSize, closeLog, lastUsed, clock>>
appVars == <<labelCache, datasetCount, uiIndex, pending, readOnly, labelHandles, currentBitmap,
             selectionRect, reads, nextBitmap, lruVars>>
textVars == <<labelText, labelBoxes, nextLabelId>>
vars == <<currentIndex, imageStates, globalModified, lastOp, lastRet, cycle,
          heap, hst, handed, created, labelCache, datasetCount, uiIndex, pending, readOnly,
          labelHandles,
          currentBitmap, selectionRect, reads, nextBitmap, imageCache, cacheMaxSize,
          closeLog, lastUsed, clock, labelText, labelBoxes, nextLabelId>>

----------------------------------------------------------------------------
(* Bound of the model, and the inputs the methods are called with *)

MaxHist == 1        \* Spec records an Action only while undoStack is shorter
MaxFlagHist == 2    \* the same for SpecFlags and SpecUndo
MaxPairHist == 1    \* SpecPair records one only while the two images' stacks hold fewer

(* StateManager.maxStackSize *)
maxStackSize == 50

(* Spec edits one image, the one at index 0 *)
Images == {0}

(* the ids one LabelParser.parse call of the image's label file gives its   *)
(* boxes, numbered in the order crypto.randomUUID() hands them out          *)
BoxIds == {1, 2}

(* the ids two parse calls hand out: no id is handed out twice *)
Uuids == {1, 2, 3, 4}

(* the payload of the box on a given line of the label file: the fields the *)
(* session never writes                                                     *)
ClassOf(line) == line % 2

Box(id, d, s) == [id |-> id, classId |-> ClassOf(id), deleted |-> d, selected |-> s]

(* Box collections as the first LabelParser.parse call hands them over: n   *)
(* boxes with the distinct ids 1..n, deleted = false, selected = false      *)
(* (parse, l.47-57).                                                        *)
ParsedBoxes(n) == [i \in 1..n |-> Box(i, FALSE, FALSE)]

(* the same lines parsed by a call whose first crypto.randomUUID() is the   *)
(* one numbered first: the fields of the lines, under new ids               *)
ParsedFrom(first, n) == [i \in 1..n |-> [ParsedBoxes(n)[i] EXCEPT !.id = first + i - 1]]

(* what two parse calls of a label file of up to the given number of lines  *)
(* return: the first call hands out the ids 1..n, the second n+1..2n        *)
ParseResults(lines) ==
    UNION { { ParsedFrom(1, n), ParsedFrom(n + 1, n) } : n \in 0..lines }

BoxLists == ParseResults(Cardinality(BoxIds))

----------------------------------------------------------------------------
(* LabelParser.cloneBox / cloneBoxes: a fresh object with every field copied *)

cloneBox(box) == [f \in DOMAIN box |-> box[f]]

cloneBoxes(boxes) == [i \in 1..Len(boxes) |-> cloneBox(boxes[i])]

----------------------------------------------------------------------------
(* Array helpers as the code uses them *)

(* Array.prototype.find by id: position of the first box with that id, 0 if none *)
FindById(boxes, id) ==
    IF \E i \in 1..Len(boxes) : boxes[i].id = id
    THEN CHOOSE i \in 1..Len(boxes) :
            /\ boxes[i].id = id
            /\ \A j \in 1..(i-1) : boxes[j].id # id
    ELSE 0

(* Array.prototype.filter is Sequences!SelectSeq *)
IsSelectedLive(b) == b.selected /\ ~b.deleted
IsLive(b) == ~b.deleted
IsDeleted(b) == b.deleted
IsDeletedSelected(b) == b.deleted /\ b.selected

HasState(i) == i \in DOMAIN imageStates
CurState == imageStates[currentIndex]

(* imageStates.set(index, st) *)
MapSet(m, index, st) ==
    [i \in (DOMAIN m) \cup {index} |-> IF i = index THEN st ELSE m[i]]

(* imageStates.delete(index) *)
MapDelete(m, index) == [i \in (DOMAIN m) \ {index} |-> m[i]]

EmptyMap == [i \in {} |-> 0]

----------------------------------------------------------------------------
(* StateManager: the methods as functions of the ImageEditState *)

(* a fresh ImageEditState, as initImageState builds it *)
NewImageState(boxes) ==
    [ boxes         |-> cloneBoxes(boxes),
      originalBoxes |-> cloneBoxes(boxes),
      undoStack     |-> <<>>,
      redoStack     |-> <<>> ]

(* mutant of TrimStack: the trim is left out *)
TrimStack_Off(stack) == stack

(* mutant of TrimStack: the newest entry is dropped instead of the oldest *)
TrimStack_DropNewest(stack) ==
    IF Len(stack) > maxStackSize THEN SubSeq(stack, 1, Len(stack) - 1) ELSE stack

(* recordAction: push a clone of the affected boxes, trim, clear redo *)
TrimStack(stack) ==
    IF Len(stack) > maxStackSize THEN Tail(stack) ELSE stack

(* mutant of NewAction: the snapshot is taken after the boxes were marked *)
NewAction_AfterMark(type, affectedBoxes) ==
    [ type |-> type,
      boxes |-> [i \in 1..Len(affectedBoxes) |->
                    [affectedBoxes[i] EXCEPT !.deleted = (type = "delete"),
                                             !.selected = FALSE]] ]

NewAction(type, affectedBoxes) ==
    [ type |-> type, boxes |-> [i \in 1..Len(affectedBoxes) |-> cloneBox(affectedBoxes[i])] ]

(* mutant of recordAction: the redo stack is kept *)
recordAction_KeepsRedo(st, type, affectedBoxes) ==
    [ st EXCEPT !.undoStack = TrimStack(Append(st.undoStack, NewAction(type, affectedBoxes))) ]

recordAction(st, type, affectedBoxes) ==
    [ st EXCEPT !.undoStack = TrimStack(Append(st.undoStack, NewAction(type, affectedBoxes))),
                !.redoStack = <<>> ]

(* one iteration of the replay loops of undo/redo:                          *)
(*   box = state.boxes.find(b => b.id === savedBox.id);                      *)
(*   if (box) { box.deleted = del; box.selected = false; }                   *)
ReplayOne(boxes, savedBox, del) ==
    LET i == FindById(boxes, savedBox.id)
    IN  IF i = 0 THEN boxes
        ELSE [boxes EXCEPT ![i].deleted = del, ![i].selected = FALSE]

RECURSIVE ReplayAll(_, _, _)
ReplayAll(boxes, savedBoxes, del) ==
    IF savedBoxes = <<>> THEN boxes
    ELSE ReplayAll(ReplayOne(boxes, Head(savedBoxes), del), Tail(savedBoxes), del)

(* mutant of UndoBoxes: the branches of redo pasted into undo *)
UndoBoxes_AsRedo(boxes, action) ==
    IF action.type = "delete" THEN ReplayAll(boxes, action.boxes, TRUE)
    ELSE IF action.type = "restore" THEN ReplayAll(boxes, action.boxes, FALSE)
    ELSE boxes

(* undo: reverse the action on the working boxes *)
UndoBoxes(boxes, action) ==
    IF action.type = "delete" THEN ReplayAll(boxes, action.boxes, FALSE)
    ELSE IF action.type = "restore" THEN ReplayAll(boxes, action.boxes, TRUE)
    ELSE boxes

(* mutant of RedoBoxes: the branches of undo pasted into redo *)
RedoBoxes_AsUndo(boxes, action) ==
    IF action.type = "delete" THEN ReplayAll(boxes, action.boxes, FALSE)
    ELSE IF action.type = "restore" THEN ReplayAll(boxes, action.boxes, TRUE)
    ELSE boxes

(* redo: re-apply the action on the working boxes *)
RedoBoxes(boxes, action) ==
    IF action.type = "delete" THEN ReplayAll(boxes, action.boxes, TRUE)
    ELSE IF action.type = "restore" THEN ReplayAll(boxes, action.boxes, FALSE)
    ELSE boxes

(* Array.prototype.pop / push on a stack kept as a sequence, top last *)
Top(stack) == stack[Len(stack)]
Pop(stack) == SubSeq(stack, 1, Len(stack) - 1)

(* mutant of hasChanges: the boxes are compared as objects, and a working   *)
(* box is never the same object as its original                             *)
hasChanges_ByIdentity(st) == Len(st.boxes) > 0

(* updateModifiedState: the scan for a difference from originalBoxes *)
hasChanges(st) ==
    \E i \in 1..Len(st.boxes) :
        LET o == FindById(st.originalBoxes, st.boxes[i].id)
        IN  o = 0 \/ st.boxes[i].deleted # st.originalBoxes[o].deleted

(* mutant of updateModifiedState: the else branch is left out *)
updateModifiedState_AddOnly(st, modified, index) ==
    IF hasChanges(st) THEN modified \cup {index} ELSE modified

updateModifiedState(st, modified, index) ==
    IF hasChanges(st) THEN modified \cup {index} ELSE modified \ {index}

(* the loops of deleteSelected / restoreDeleted over the filtered boxes:    *)
(* the filtered array holds references into state.boxes                     *)
NotSelectedLive(b) == ~IsSelectedLive(b)

(* mutant of DeleteMarked: the selected boxes are taken out of the array *)
DeleteMarked_Removes(boxes) == SelectSeq(boxes, NotSelectedLive)

DeleteMarked(boxes) ==
    [i \in 1..Len(boxes) |->
        IF IsSelectedLive(boxes[i])
        THEN [boxes[i] EXCEPT !.deleted = TRUE, !.selected = FALSE]
        ELSE boxes[i]]

ToRestore(boxes, onlySelected) ==
    IF onlySelected THEN SelectSeq(boxes, IsDeletedSelected)
    ELSE SelectSeq(boxes, IsDeleted)

(* mutant of RestoreMarked: onlySelected is ignored *)
RestoreMarked_All(boxes, onlySelected) ==
    [i \in 1..Len(boxes) |->
        IF IsDeleted(boxes[i])
        THEN [boxes[i] EXCEPT !.deleted = FALSE, !.selected = FALSE]
        ELSE boxes[i]]

RestoreMarked(boxes, onlySelected) ==
    [i \in 1..Len(boxes) |->
        IF (IF onlySelected THEN IsDeletedSelected(boxes[i]) ELSE IsDeleted(boxes[i]))
        THEN [boxes[i] EXCEPT !.deleted = FALSE, !.selected = FALSE]
        ELSE boxes[i]]

(* mutant of SavedState: the working collection keeps its tombstones *)
SavedState_KeepsDeleted(st) ==
    LET nonDeleted == SelectSeq(st.boxes, IsLive)
    IN  [ boxes         |-> cloneBoxes(st.boxes),
          originalBoxes |-> cloneBoxes(nonDeleted),
          undoStack     |-> <<>>,
          redoStack     |-> <<>> ]

(* markSaved on one ImageEditState *)
SavedState(st) ==
    LET nonDeleted == SelectSeq(st.boxes, IsLive)
    IN  [ boxes         |-> cloneBoxes(nonDeleted),
          originalBoxes |-> cloneBoxes(nonDeleted),
          undoStack     |-> <<>>,
          redoStack     |-> <<>> ]

(* resetCurrent on one ImageEditState *)
ResetState(st) ==
    [ boxes         |-> cloneBoxes(st.originalBoxes),
      originalBoxes |-> st.originalBoxes,
      undoStack     |-> <<>>,
      redoStack     |-> <<>> ]

(* the counters, for the image at the current index *)
getSelectedCount ==
    IF HasState(currentIndex) THEN Len(SelectSeq(CurState.boxes, IsSelectedLive)) ELSE 0

getBoxCount ==
    IF HasState(currentIndex) THEN Len(SelectSeq(CurState.boxes, IsLive)) ELSE 0

getDeletedCount ==
    IF HasState(currentIndex) THEN Len(SelectSeq(CurState.boxes, IsDeleted)) ELSE 0

getCurrentBoxes ==
    IF HasState(currentIndex) THEN CurState.boxes ELSE <<>>

getBoxesForSave ==
    IF HasState(currentIndex) THEN SelectSeq(CurState.boxes, IsLive) ELSE <<>>

(* the values of a sequence *)
Range(seq) == { seq[i] : i \in 1..Len(seq) }

(* the ids of the boxes of an array *)
IdsOf(boxes) == { boxes[i].id : i \in 1..Len(boxes) }

isCurrentModified == currentIndex \in globalModified

canUndo == IF HasState(currentIndex) THEN Len(CurState.undoStack) > 0 ELSE FALSE
canRedo == IF HasState(currentIndex) THEN Len(CurState.redoStack) > 0 ELSE FALSE

----------------------------------------------------------------------------
(* History variable: where the session is in the cycle                      *)
(*   initImageState on a fresh session -> deleteSelected -> undo -> redo,    *)
(* with n the live count after the initialisation and k the number of boxes *)
(* that were selected and live when deleteSelected was called.  Selection   *)
(* operations leave the cycle where it is; any other call ends it, except   *)
(* that after the undo a deleteSelected that deletes a box leads to the     *)
(* phase "rerecorded" and a redo refused right after it to "redoRefused".   *)
NoCycle == [phase |-> "none", index |-> -1, n |-> 0, k |-> 0]

FreshSession == imageStates = EmptyMap /\ globalModified = {}

LiveCount(boxes) == Len(SelectSeq(boxes, IsLive))

----------------------------------------------------------------------------
(* StateManager's methods as actions *)

(* mutant of initImageState: the has(index) test is left out *)
initImageState_Overwrites(index, boxes) ==
    /\ imageStates' = MapSet(imageStates, index, NewImageState(boxes))
    /\ currentIndex' = index
    /\ UNCHANGED globalModified
    /\ lastOp' = "initImageState"
    /\ lastRet' = "void"
    /\ cycle' = NoCycle

initImageState(index, boxes) ==
    /\ imageStates' = IF ~HasState(index)
                      THEN MapSet(imageStates, index, NewImageState(boxes))
                      ELSE imageStates
    /\ currentIndex' = index
    /\ UNCHANGED globalModified
    /\ lastOp' = "initImageState"
    /\ lastRet' = "void"
    /\ cycle' = IF FreshSession
                THEN [phase |-> "init", index |-> index, n |-> LiveCount(boxes), k |-> 0]
                ELSE NoCycle

setCurrentIndex(index) ==
    /\ currentIndex' = index
    /\ UNCHANGED <<imageStates, globalModified>>
    /\ lastOp' = "setCurrentIndex"
    /\ lastRet' = "void"
    /\ cycle' = NoCycle

(* mutant of setCurrentBoxes: an image without state gets one *)
setCurrentBoxes_Creates(boxes) ==
    /\ imageStates' = IF HasState(currentIndex)
                      THEN [imageStates EXCEPT ![currentIndex].boxes = cloneBoxes(boxes)]
                      ELSE MapSet(imageStates, currentIndex, NewImageState(boxes))
    /\ UNCHANGED <<currentIndex, globalModified>>
    /\ lastOp' = "setCurrentBoxes"
    /\ lastRet' = "void"
    /\ cycle' = NoCycle

setCurrentBoxes(boxes) ==
    /\ imageStates' = IF HasState(currentIndex)
                      THEN [imageStates EXCEPT ![currentIndex].boxes = cloneBoxes(boxes)]
                      ELSE imageStates
    /\ UNCHANGED <<currentIndex, globalModified>>
    /\ lastOp' = "setCurrentBoxes"
    /\ lastRet' = "void"
    /\ cycle' = NoCycle

(* what undo does to an ImageEditState with a non-empty undo stack          *)
(* (l.107-130): pop, replay the inverse, push on the redo stack             *)
UndoState(st) ==
    LET action == Top(st.undoStack)
    IN  [st EXCEPT !.undoStack = Pop(st.undoStack),
                   !.boxes = UndoBoxes(st.boxes, action),
                   !.redoStack = Append(st.redoStack, action)]

(* what redo does to an ImageEditState with a non-empty redo stack          *)
(* (l.146-169): pop, replay, push on the undo stack                         *)
RedoState(st) ==
    LET action == Top(st.redoStack)
    IN  [st EXCEPT !.redoStack = Pop(st.redoStack),
                   !.boxes = RedoBoxes(st.boxes, action),
                   !.undoStack = Append(st.undoStack, action)]

(* mutant of Refused: the early return comes after updateModifiedState *)
Refused_AfterUpdate ==
    /\ lastRet' = FALSE
    /\ UNCHANGED imageStates
    /\ globalModified' = IF HasState(currentIndex)
                         THEN updateModifiedState(CurState, globalModified, currentIndex)
                         ELSE globalModified

(* the early return of undo / redo: return false, touch nothing *)
Refused ==
    /\ lastRet' = FALSE
    /\ UNCHANGED <<imageStates, globalModified>>

(* the rest of undo / redo, st the ImageEditState after the replay *)
Replayed(st) ==
    /\ imageStates' = [imageStates EXCEPT ![currentIndex] = st]
    /\ globalModified' = updateModifiedState(st, globalModified, currentIndex)
    /\ lastRet' = TRUE

undo ==
    /\ lastOp' = "undo"
    /\ UNCHANGED currentIndex
    /\ IF ~HasState(currentIndex) \/ Len(CurState.undoStack) = 0
       THEN /\ Refused
            /\ cycle' = NoCycle
       ELSE /\ Replayed(UndoState(CurState))
            /\ cycle' = IF cycle.phase = "deleted"
                        THEN [cycle EXCEPT !.phase = "undone"]
                        ELSE NoCycle

redo ==
    /\ lastOp' = "redo"
    /\ UNCHANGED currentIndex
    /\ IF ~HasState(currentIndex) \/ Len(CurState.redoStack) = 0
       THEN /\ Refused
            /\ cycle' = IF cycle.phase = "rerecorded"
                        THEN [cycle EXCEPT !.phase = "redoRefused"]
                        ELSE NoCycle
       ELSE /\ Replayed(RedoState(CurState))
            /\ cycle' = IF cycle.phase = "undone"
                        THEN [cycle EXCEPT !.phase = "redone"]
                        ELSE NoCycle

(* mutant of markModified: the flag is derived from the comparison *)
markModified_Compared(st, modified, index) == updateModifiedState(st, modified, index)

(* markModified, called by deleteSelected / restoreDeleted once the boxes    *)
(* are marked (st): adds the current index, whatever the boxes are          *)
markModified(st, modified, index) == modified \cup {index}

(* mutant of deleteSelected: the early return on an empty selection is left out *)
deleteSelected_NoEarlyReturn ==
    /\ lastOp' = "deleteSelected"
    /\ UNCHANGED currentIndex
    /\ cycle' = NoCycle
    /\ IF ~HasState(currentIndex)
       THEN /\ lastRet' = 0
            /\ UNCHANGED <<imageStates, globalModified>>
       ELSE LET selected == SelectSeq(CurState.boxes, IsSelectedLive)
                recorded == recordAction(CurState, "delete", selected)
                st == [recorded EXCEPT !.boxes = DeleteMarked(recorded.boxes)]
            IN  /\ imageStates' = [imageStates EXCEPT ![currentIndex] = st]
                /\ globalModified' = markModified(st, globalModified, currentIndex)
                /\ lastRet' = Len(selected)

deleteSelected ==
    /\ lastOp' = "deleteSelected"
    /\ UNCHANGED currentIndex
    /\ IF ~HasState(currentIndex)
       THEN /\ lastRet' = 0
            /\ UNCHANGED <<imageStates, globalModified>>
            /\ cycle' = NoCycle
       ELSE LET selected == SelectSeq(CurState.boxes, IsSelectedLive)
            IN  IF Len(selected) = 0
                THEN /\ lastRet' = 0
                     /\ UNCHANGED <<imageStates, globalModified>>
                     /\ cycle' = NoCycle
                ELSE LET recorded == recordAction(CurState, "delete", selected)
                         st == [recorded EXCEPT !.boxes = DeleteMarked(recorded.boxes)]
                     IN  /\ imageStates' = [imageStates EXCEPT ![currentIndex] = st]
                         /\ globalModified' = markModified(st, globalModified, currentIndex)
                         /\ lastRet' = Len(selected)
                         /\ cycle' = IF cycle.phase = "init"
                                     THEN [cycle EXCEPT !.phase = "deleted",
                                                        !.k = Len(selected)]
                                     ELSE IF cycle.phase = "undone"
                                     THEN [cycle EXCEPT !.phase = "rerecorded"]
                                     ELSE NoCycle

restoreDeleted(onlySelected) ==
    /\ lastOp' = "restoreDeleted"
    /\ UNCHANGED currentIndex
    /\ cycle' = NoCycle
    /\ IF ~HasState(currentIndex)
       THEN /\ lastRet' = 0
            /\ UNCHANGED <<imageStates, globalModified>>
       ELSE LET toRestore == ToRestore(CurState.boxes, onlySelected)
            IN  IF Len(toRestore) = 0
                THEN /\ lastRet' = 0
                     /\ UNCHANGED <<imageStates, globalModified>>
                ELSE LET recorded == recordAction(CurState, "restore", toRestore)
                         st == [recorded EXCEPT
                                   !.boxes = RestoreMarked(recorded.boxes, onlySelected)]
                     IN  /\ imageStates' = [imageStates EXCEPT ![currentIndex] = st]
                         /\ globalModified' = markModified(st, globalModified, currentIndex)
                         /\ lastRet' = Len(toRestore)

(* mutant of SelectAllBoxes: deleted boxes are selected too *)
SelectAllBoxes_WithDeleted(boxes) ==
    [i \in 1..Len(boxes) |-> [boxes[i] EXCEPT !.selected = TRUE]]

(* the selection operations write only the selected flag *)
SelectAllBoxes(boxes) ==
    [i \in 1..Len(boxes) |->
        IF ~boxes[i].deleted THEN [boxes[i] EXCEPT !.selected = TRUE] ELSE boxes[i]]

ClearSelectionBoxes(boxes) ==
    [i \in 1..Len(boxes) |-> [boxes[i] EXCEPT !.selected = FALSE]]

ToggleBox(boxes, boxId) ==
    LET i == FindById(boxes, boxId)
    IN  IF i # 0 /\ ~boxes[i].deleted
        THEN [boxes EXCEPT ![i].selected = ~boxes[i].selected]
        ELSE boxes

SelectOneBox(boxes, boxId) ==
    LET cleared == ClearSelectionBoxes(boxes)
        i == FindById(cleared, boxId)
    IN  IF i # 0 /\ ~cleared[i].deleted
        THEN [cleared EXCEPT ![i].selected = TRUE]
        ELSE cleared

(* main.js finalizeSelectionRect: writes selected = true, through the array  *)
(* getCurrentBoxes returns, on every live box the rectangle intersects;      *)
(* hit is the set of ids of the boxes that intersect the rectangle           *)
RectSelectBoxes(boxes, hit) ==
    [i \in 1..Len(boxes) |->
        IF ~boxes[i].deleted /\ boxes[i].id \in hit
        THEN [boxes[i] EXCEPT !.selected = TRUE] ELSE boxes[i]]

SelectionOp(name, newBoxes) ==
    /\ imageStates' = IF HasState(currentIndex)
                      THEN [imageStates EXCEPT ![currentIndex].boxes = newBoxes]
                      ELSE imageStates
    /\ UNCHANGED <<currentIndex, globalModified, cycle>>
    /\ lastOp' = name
    /\ lastRet' = "void"

selectAll == SelectionOp("selectAll", SelectAllBoxes(getCurrentBoxes))

clearSelection == SelectionOp("clearSelection", ClearSelectionBoxes(getCurrentBoxes))

toggleBoxSelection(boxId) ==
    SelectionOp("toggleBoxSelection", ToggleBox(getCurrentBoxes, boxId))

selectBox(boxId) == SelectionOp("selectBox", SelectOneBox(getCurrentBoxes, boxId))

finalizeSelectionRect(hit) ==
    SelectionOp("finalizeSelectionRect", RectSelectBoxes(getCurrentBoxes, hit))

(* markSaved with the current index at index *)
MarkSavedStates(states, index) ==
    IF index \in DOMAIN states
    THEN [states EXCEPT ![index] = SavedState(states[index])]
    ELSE states

(* mutant of MarkSavedModified: the whole modified set is emptied *)
MarkSavedModified_ClearsAll(states, modified, index) ==
    IF index \in DOMAIN states THEN {} ELSE modified

MarkSavedModified(states, modified, index) ==
    IF index \in DOMAIN states THEN modified \ {index} ELSE modified

markSaved ==
    /\ imageStates' = MarkSavedStates(imageStates, currentIndex)
    /\ globalModified' = MarkSavedModified(imageStates, globalModified, currentIndex)
    /\ UNCHANGED currentIndex
    /\ lastOp' = "markSaved"
    /\ lastRet' = "void"
    /\ cycle' = NoCycle

(* mutant of markSavedAt: the previous index is not put back *)
markSavedAt_KeepsIndex(index) ==
    /\ imageStates' = MarkSavedStates(imageStates, index)
    /\ globalModified' = MarkSavedModified(imageStates, globalModified, index)
    /\ currentIndex' = index
    /\ lastOp' = "markSavedAt"
    /\ lastRet' = "void"
    /\ cycle' = NoCycle

(* mutant of clearImageState: the index stays in the modified set *)
clearImageState_KeepsFlag(index) ==
    /\ imageStates' = MapDelete(imageStates, index)
    /\ UNCHANGED <<currentIndex, globalModified>>
    /\ lastOp' = "clearImageState"
    /\ lastRet' = "void"
    /\ cycle' = NoCycle

markSavedAt(index) ==
    /\ imageStates' = MarkSavedStates(imageStates, index)
    /\ globalModified' = MarkSavedModified(imageStates, globalModified, index)
    /\ currentIndex' = currentIndex
    /\ lastOp' = "markSavedAt"
    /\ lastRet' = "void"
    /\ cycle' = NoCycle

clearImageState(index) ==
    /\ imageStates' = MapDelete(imageStates, index)
    /\ globalModified' = globalModified \ {index}
    /\ UNCHANGED currentIndex
    /\ lastOp' = "clearImageState"
    /\ lastRet' = "void"
    /\ cycle' = NoCycle

clearAll ==
    /\ imageStates' = EmptyMap
    /\ globalModified' = {}
    /\ currentIndex' = -1
    /\ lastOp' = "clearAll"
    /\ lastRet' = "void"
    /\ cycle' = NoCycle

resetCurrent ==
    /\ imageStates' = IF HasState(currentIndex)
                      THEN [imageStates EXCEPT ![currentIndex] = ResetState(CurState)]
                      ELSE imageStates
    /\ globalModified' = IF HasState(currentIndex)
                         THEN globalModified \ {currentIndex}
                         ELSE globalModified
    /\ UNCHANGED currentIndex
    /\ lastOp' = "resetCurrent"
    /\ lastRet' = "void"
    /\ cycle' = NoCycle

(* The bookkeeping methods called from outside the class: recordAction,     *)
(* markModified and updateModifiedState are public methods like the others. *)
(* An Action of a type other than 'delete' and 'restore' is recorded like   *)
(* any other; undo and redo move it between the stacks and mark no box.     *)
ActionTypes == {"delete", "restore", "move"}

(* stateManager.recordAction(type, affectedBoxes) *)
recordActionCall(type, affectedBoxes) ==
    /\ imageStates' = IF HasState(currentIndex)
                      THEN [imageStates EXCEPT
                               ![currentIndex] = recordAction(CurState, type, affectedBoxes)]
                      ELSE imageStates
    /\ UNCHANGED <<currentIndex, globalModified>>
    /\ lastOp' = "recordAction"
    /\ lastRet' = "void"
    /\ cycle' = NoCycle

(* stateManager.markModified(): adds the current index, state or no state *)
markModifiedCall ==
    /\ globalModified' = markModified(IF HasState(currentIndex) THEN CurState
                                                                ELSE NewImageState(<<>>),
                                      globalModified, currentIndex)
    /\ UNCHANGED <<currentIndex, imageStates>>
    /\ lastOp' = "markModified"
    /\ lastRet' = "void"
    /\ cycle' = NoCycle

(* stateManager.updateModifiedState(): returns at once without a state *)
updateModifiedStateCall ==
    /\ globalModified' = IF HasState(currentIndex)
                         THEN updateModifiedState(CurState, globalModified, currentIndex)
                         ELSE globalModified
    /\ UNCHANGED <<currentIndex, imageStates>>
    /\ lastOp' = "updateModifiedState"
    /\ lastRet' = "void"
    /\ cycle' = NoCycle

----------------------------------------------------------------------------
(* LRUCache: the Map is the sequence of its entries [key, value] in         *)
(* insertion order (Map iterates in insertion order, delete followed by set *)
(* moves a key to the end).  A value is a positive number naming an object  *)
(* with a close() method (an ImageBitmap); 0 stands for null.               *)

(* position of key in this.cache, 0 if it is not there *)
LruPos(c, key) ==
    IF \E i \in 1..Len(c) : c[i].key = key
    THEN CHOOSE i \in 1..Len(c) : c[i].key = key
    ELSE 0

(* LRUCache.has / this.cache.has(key) *)
LruHas(c, key) == LruPos(c, key) # 0

(* this.cache.get(key) *)
LruValue(c, key) == c[LruPos(c, key)].value

(* this.cache.delete(key) *)
LruWithout(c, key) ==
    LET Keep(e) == e.key # key IN SelectSeq(c, Keep)

LruKeys(c) == { c[i].key : i \in 1..Len(c) }

LruValues(c) == { c[i].value : i \in 1..Len(c) }

(* mutant of LruGet: the entry found is returned where it is *)
LruGet_NoPromote(c, key) ==
    IF ~LruHas(c, key)
    THEN [ret |-> 0, cache |-> c]
    ELSE [ret |-> LruValue(c, key), cache |-> c]

(* LRUCache.get: the value returned (0 for null) and the cache afterwards *)
LruGet(c, key) ==
    IF ~LruHas(c, key)
    THEN [ret |-> 0, cache |-> c]
    ELSE [ret |-> LruValue(c, key),
          cache |-> Append(LruWithout(c, key), [key |-> key, value |-> LruValue(c, key)])]

(* mutant of LruSet: a new key is added without looking at the size *)
LruSet_NoEviction(c, max, key, value) ==
    [cache |-> Append(LruWithout(c, key), [key |-> key, value |-> value]),
     closed |-> <<>>]

(* mutant of LruSet: the evicted value is dropped without close() *)
LruSet_NoClose(c, max, key, value) ==
    IF LruHas(c, key)
    THEN [cache |-> Append(LruWithout(c, key), [key |-> key, value |-> value]),
          closed |-> <<>>]
    ELSE IF Len(c) >= max
    THEN [cache |-> Append(Tail(c), [key |-> key, value |-> value]), closed |-> <<>>]
    ELSE [cache |-> Append(c, [key |-> key, value |-> value]), closed |-> <<>>]

(* mutant of LruSet: the size is looked at before the key, so a full cache  *)
(* evicts its first entry when a key it holds is set again                  *)
LruSet_SizeFirst(c, max, key, value) ==
    IF Len(c) >= max
    THEN [cache |-> Append(LruWithout(Tail(c), key), [key |-> key, value |-> value]),
          closed |-> <<Head(c).value>>]
    ELSE [cache |-> Append(LruWithout(c, key), [key |-> key, value |-> value]),
          closed |-> <<>>]

(* mutant of LruSet: the value a set replaces is closed *)
LruSet_ClosesReplaced(c, max, key, value) ==
    IF LruHas(c, key)
    THEN [cache |-> Append(LruWithout(c, key), [key |-> key, value |-> value]),
          closed |-> <<LruValue(c, key)>>]
    ELSE IF Len(c) >= max
    THEN [cache |-> Append(Tail(c), [key |-> key, value |-> value]),
          closed |-> <<Head(c).value>>]
    ELSE [cache |-> Append(c, [key |-> key, value |-> value]), closed |-> <<>>]

(* LRUCache.set: the cache afterwards and the values close() was called on. *)
(* An existing key is deleted and re-added, its old value is not closed; a  *)
(* new key at size >= maxSize evicts the first entry and closes its value.  *)
LruSet(c, max, key, value) ==
    IF LruHas(c, key)
    THEN [cache |-> Append(LruWithout(c, key), [key |-> key, value |-> value]),
          closed |-> <<>>]
    ELSE IF Len(c) >= max
    THEN [cache |-> Append(Tail(c), [key |-> key, value |-> value]),
          closed |-> <<Head(c).value>>]
    ELSE [cache |-> Append(c, [key |-> key, value |-> value]), closed |-> <<>>]

(* LRUCache.delete: the value returned, the cache afterwards, the values closed *)
LruDelete(c, key) ==
    IF LruHas(c, key)
    THEN [ret |-> TRUE, cache |-> LruWithout(c, key), closed |-> <<LruValue(c, key)>>]
    ELSE [ret |-> FALSE, cache |-> c, closed |-> <<>>]

(* LRUCache.clear: every value is closed, in iteration order *)
LruClear(c) ==
    [cache |-> <<>>, closed |-> [i \in 1..Len(c) |-> c[i].value]]

----------------------------------------------------------------------------
(* The session driven through its public methods *)

(* no label file read or written: LabelParser has no state of its own *)
TextIdle ==
    /\ labelText = <<>>
    /\ labelBoxes = <<>>
    /\ nextLabelId = 1

(* the parts of the state the session's value model does not use: no box    *)
(* object allocated, no label cached, no image shown, no call suspended     *)
RefIdle ==
    /\ heap = <<>>
    /\ hst = [boxes |-> <<>>, originalBoxes |-> <<>>, undoStack |-> <<>>, redoStack |-> <<>>]
    /\ handed = [live |-> FALSE, items |-> <<>>]
    /\ created = 0

(* DatasetLoader's new LRUCache(10) *)
imageCacheSize == 10

(* the keys the cache on its own is called with, and no key used yet *)
CacheKeys == 1..3

NoUse == [k \in CacheKeys |-> 0]

(* no dataset loaded, no image shown, no call suspended, an empty cache *)
LoaderIdle ==
    /\ labelCache = EmptyMap
    /\ datasetCount = 0
    /\ uiIndex = -1
    /\ pending = {}
    /\ readOnly = FALSE
    /\ labelHandles = {}
    /\ currentBitmap = 0
    /\ selectionRect = FALSE
    /\ reads = <<>>
    /\ nextBitmap = 1
    /\ imageCache = <<>>
    /\ closeLog = <<>>
    /\ lastUsed = NoUse
    /\ clock = 0

AppIdle ==
    /\ LoaderIdle
    /\ cacheMaxSize = imageCacheSize

(* a step of the session alone *)
SessionOnly == UNCHANGED <<refVars, appVars, textVars>>

(* new StateManager() *)
Init ==
    /\ currentIndex = -1
    /\ imageStates = EmptyMap
    /\ globalModified = {}
    /\ lastOp = "constructor"
    /\ lastRet = "void"
    /\ cycle = NoCycle
    /\ RefIdle
    /\ TextIdle
    /\ AppIdle

(* Spec stops recording once the current image's undo stack holds MaxHist   *)
(* Actions; SpecStack below has no such cap.  recordAction is called from   *)
(* outside with a parsed box, which no edit has marked.                     *)
HistRoom == HasState(currentIndex) => Len(CurState.undoStack) < MaxHist

Next ==
    \/ \E index \in Images, boxes \in BoxLists : initImageState(index, boxes) /\ SessionOnly
    \/ \E index \in Images : setCurrentIndex(index) /\ SessionOnly
    \/ \E boxes \in BoxLists : setCurrentBoxes(boxes) /\ SessionOnly
    \/ undo /\ SessionOnly
    \/ redo /\ SessionOnly
    \/ HistRoom /\ deleteSelected /\ SessionOnly
    \/ \E onlySelected \in BOOLEAN : HistRoom /\ restoreDeleted(onlySelected) /\ SessionOnly
    \/ selectAll /\ SessionOnly
    \/ clearSelection /\ SessionOnly
    \/ \E boxId \in Uuids : toggleBoxSelection(boxId) /\ SessionOnly
    \/ \E boxId \in Uuids : selectBox(boxId) /\ SessionOnly
    \/ \E hit \in SUBSET IdsOf(getCurrentBoxes) : finalizeSelectionRect(hit) /\ SessionOnly
    \/ markSaved /\ SessionOnly
    \/ \E index \in Images : markSavedAt(index) /\ SessionOnly
    \/ \E index \in Images : clearImageState(index) /\ SessionOnly
    \/ clearAll /\ SessionOnly
    \/ resetCurrent /\ SessionOnly
    \/ \E type \in ActionTypes :
            HistRoom /\ recordActionCall(type, ParsedBoxes(1)) /\ SessionOnly
    \/ markModifiedCall /\ SessionOnly
    \/ updateModifiedStateCall /\ SessionOnly

Spec == Init /\ [][Next]_vars

----------------------------------------------------------------------------
(* The undo history at full depth: one image with one box, edited through   *)
(* selectAll, deleteSelected, restoreDeleted, undo and redo with no cap on  *)
(* the number of recorded Actions other than the code's maxStackSize.       *)

(* new StateManager(); initImageState(0, one parsed box) *)
InitStack ==
    /\ currentIndex = 0
    /\ imageStates = MapSet(EmptyMap, 0, NewImageState(ParsedBoxes(1)))
    /\ globalModified = {}
    /\ lastOp = "initImageState"
    /\ lastRet = "void"
    /\ cycle = [phase |-> "init", index |-> 0, n |-> 1, k |-> 0]
    /\ RefIdle
    /\ TextIdle
    /\ AppIdle

NextStack ==
    \/ selectAll /\ SessionOnly
    \/ deleteSelected /\ SessionOnly
    \/ \E onlySelected \in BOOLEAN : restoreDeleted(onlySelected) /\ SessionOnly
    \/ undo /\ SessionOnly
    \/ redo /\ SessionOnly

SpecStack == InitStack /\ [][NextStack]_vars

----------------------------------------------------------------------------
(* The session with two images, each with at most one box.  An image is     *)
(* initialised with the first parse of a label file; the second parse of    *)
(* that file (a box with a fresh id) is passed to setCurrentBoxes, and only *)
(* while image 0 is current.                                                *)

ImagePair == {0, 1}

PairBoxLists == ParseResults(1)

(* the number of Actions on the stacks of the given images *)
RECURSIVE HistLen(_, _)
HistLen(states, indices) ==
    IF indices = {} THEN 0
    ELSE LET i == CHOOSE x \in indices : TRUE
         IN  Len(states[i].undoStack) + Len(states[i].redoStack)
                 + HistLen(states, indices \ {i})

PairHistRoom == HistLen(imageStates, DOMAIN imageStates) < MaxPairHist

NextPair ==
    \/ \E index \in ImagePair, boxes \in PairBoxLists :
            /\ IdsOf(boxes) = 1..Len(boxes)
            /\ initImageState(index, boxes) /\ SessionOnly
    \/ \E index \in ImagePair : setCurrentIndex(index) /\ SessionOnly
    \/ \E boxes \in PairBoxLists :
            /\ IdsOf(boxes) # 1..Len(boxes) => currentIndex = 0
            /\ setCurrentBoxes(boxes) /\ SessionOnly
    \/ PairHistRoom /\ deleteSelected /\ SessionOnly
    \/ \E onlySelected \in BOOLEAN :
            PairHistRoom /\ restoreDeleted(onlySelected) /\ SessionOnly
    \/ undo /\ SessionOnly
    \/ redo /\ SessionOnly
    \/ selectAll /\ SessionOnly
    \/ clearSelection /\ SessionOnly
    \/ \E boxId \in BoxIds : toggleBoxSelection(boxId) /\ SessionOnly
    \/ \E boxId \in BoxIds : selectBox(boxId) /\ SessionOnly
    \/ markSaved /\ SessionOnly
    \/ \E index \in ImagePair : markSavedAt(index) /\ SessionOnly
    \/ \E index \in ImagePair : clearImageState(index) /\ SessionOnly
    \/ clearAll /\ SessionOnly
    \/ resetCurrent /\ SessionOnly
    \/ PairHistRoom /\ recordActionCall("move", ParsedBoxes(1)) /\ SessionOnly
    \/ markModifiedCall /\ SessionOnly
    \/ updateModifiedStateCall /\ SessionOnly

SpecPair == Init /\ [][NextPair]_vars

----------------------------------------------------------------------------
(* The session on boxes that arrive with their flags set: initImageState    *)
(* takes any array of boxes, and the arrays the label cache hands back hold *)
(* the deleted and selected flags the working boxes had when cached.        *)

FlaggedBoxLists ==
    UNION { { [i \in 1..n |-> Box(i, f[i][1], f[i][2])] :
                f \in [1..n -> BOOLEAN \X BOOLEAN] } : n \in 1..Cardinality(BoxIds) }

(* new StateManager(); initImageState(0, boxes) *)
InitFlags ==
    /\ \E boxes \in FlaggedBoxLists :
          /\ imageStates = MapSet(EmptyMap, 0, NewImageState(boxes))
          /\ cycle = [phase |-> "init", index |-> 0, n |-> LiveCount(boxes), k |-> 0]
    /\ currentIndex = 0
    /\ globalModified = {}
    /\ lastOp = "initImageState"
    /\ lastRet = "void"
    /\ RefIdle
    /\ TextIdle
    /\ AppIdle

FlagHistRoom == HasState(currentIndex) => Len(CurState.undoStack) < MaxFlagHist

NextFlags ==
    \/ FlagHistRoom /\ deleteSelected /\ SessionOnly
    \/ \E onlySelected \in BOOLEAN : FlagHistRoom /\ restoreDeleted(onlySelected) /\ SessionOnly
    \/ undo /\ SessionOnly
    \/ redo /\ SessionOnly
    \/ selectAll /\ SessionOnly
    \/ clearSelection /\ SessionOnly
    \/ \E boxId \in BoxIds : toggleBoxSelection(boxId) /\ SessionOnly

SpecFlags == InitFlags /\ [][NextFlags]_vars

----------------------------------------------------------------------------
(* The session at the level of object references.                           *)
(*                                                                          *)
(* heap is the sequence of the box objects the state or the caller still    *)
(* reaches (the others are collected after each step), an object's address  *)
(* its position; hst is the ImageEditState of the one image, its arrays     *)
(* (boxes, originalBoxes, the boxes of each Action) sequences of addresses. *)
(* handed is the array the caller holds: [live, items], live when it is the *)
(* very array state.boxes, items the addresses of its elements.  Array      *)
(* filter copies the array and keeps the element objects; cloneBox creates  *)
(* a new object.                                                            *)

MaxCreated == 2     \* SpecRef creates no more box objects than this after initImageState

RefAddrs(addrs) == { addrs[i] : i \in 1..Len(addrs) }

(* the objects at the addresses, by value *)
Deref(h, addrs) == [i \in 1..Len(addrs) |-> h[addrs[i]]]

(* LabelParser.cloneBoxes / boxes.map(cloneBox): one new object per element, *)
(* appended to the heap; the addresses of the new objects                    *)
RefCloned(h, addrs) == h \o [i \in 1..Len(addrs) |-> cloneBox(h[addrs[i]])]

RefFresh(h, addrs) == [i \in 1..Len(addrs) |-> Len(h) + i]

(* Array.prototype.filter on an array of references *)
RefSelectedLive(h, addrs) ==
    LET Test(a) == IsSelectedLive(h[a]) IN SelectSeq(addrs, Test)

RefLive(h, addrs) ==
    LET Test(a) == IsLive(h[a]) IN SelectSeq(addrs, Test)

RefToRestore(h, addrs, onlySelected) ==
    LET Test(a) == IF onlySelected THEN IsDeletedSelected(h[a]) ELSE IsDeleted(h[a])
    IN  SelectSeq(addrs, Test)

(* state.boxes.find(b => b.id === id): position of the first match, 0 if none *)
RefFind(h, addrs, id) == FindById(Deref(h, addrs), id)

(* state.boxes = <a new array>: a caller holding the old array keeps it *)
HandedAfterReplace ==
    IF handed.live THEN [live |-> FALSE, items |-> hst.boxes] ELSE handed

(* initImageState(0, input) on a new StateManager: two cloneBoxes of input *)
RefNewImageState(h, input) ==
    LET h1 == RefCloned(h, input)
    IN  [ heap |-> RefCloned(h1, input),
          st   |-> [ boxes         |-> RefFresh(h, input),
                     originalBoxes |-> RefFresh(h1, input),
                     undoStack     |-> <<>>,
                     redoStack     |-> <<>> ] ]

(* mutant of RefActionBoxes: the Action keeps the affected boxes themselves *)
RefActionBoxes_NoClone(h, affected) == affected

(* recordAction l.81: boxes: affectedBoxes.map(b => cloneBox(b)) *)
RefActionBoxes(h, affected) == RefFresh(h, affected)

(* recordAction on the reference-level state: the new heap and the new hst *)
RefRecordAction(h, st, type, affected) ==
    [ heap |-> RefCloned(h, affected),
      st   |-> [ st EXCEPT
                   !.undoStack = TrimStack(Append(st.undoStack,
                                    [type |-> type, boxes |-> RefActionBoxes(h, affected)])),
                   !.redoStack = <<>> ] ]

(* for (const box of affected) { box.deleted = del; box.selected = false; } *)
RefMark(h, affected, del) ==
    [a \in 1..Len(h) |->
        IF a \in RefAddrs(affected)
        THEN [h[a] EXCEPT !.deleted = del, !.selected = FALSE]
        ELSE h[a]]

(* the replay loop of undo / redo over action.boxes *)
RECURSIVE RefReplayAll(_, _, _, _)
RefReplayAll(h, working, saved, del) ==
    IF saved = <<>> THEN h
    ELSE LET i == RefFind(h, working, h[Head(saved)].id)
             h1 == IF i = 0 THEN h
                   ELSE [h EXCEPT ![working[i]].deleted = del,
                                  ![working[i]].selected = FALSE]
         IN  RefReplayAll(h1, working, Tail(saved), del)

(* Objects no array of the session or of the caller refers to are garbage:  *)
(* the heap keeps the reachable objects only, in the order in which the     *)
(* arrays (boxes, originalBoxes, the undo stack, the redo stack, the        *)
(* caller's array) first refer to them.                                     *)
RECURSIVE RefStackAddrs(_)
RefStackAddrs(stack) ==
    IF stack = <<>> THEN <<>> ELSE Head(stack).boxes \o RefStackAddrs(Tail(stack))

RECURSIVE RefDistinct(_, _)
RefDistinct(addrs, seen) ==
    IF addrs = <<>> THEN <<>>
    ELSE IF Head(addrs) \in seen THEN RefDistinct(Tail(addrs), seen)
    ELSE <<Head(addrs)>> \o RefDistinct(Tail(addrs), seen \cup {Head(addrs)})

RefReachable(st, hd) ==
    RefDistinct(st.boxes \o st.originalBoxes \o RefStackAddrs(st.undoStack)
                    \o RefStackAddrs(st.redoStack) \o hd.items, {})

RefCollected(h, st, hd) ==
    LET order == RefReachable(st, hd)
        To(a) == CHOOSE i \in 1..Len(order) : order[i] = a
        Move(addrs) == [i \in 1..Len(addrs) |-> To(addrs[i])]
        MoveStack(stack) ==
            [i \in 1..Len(stack) |-> [stack[i] EXCEPT !.boxes = Move(stack[i].boxes)]]
    IN  [ heap   |-> [i \in 1..Len(order) |-> h[order[i]]],
          st     |-> [ boxes         |-> Move(st.boxes),
                       originalBoxes |-> Move(st.originalBoxes),
                       undoStack     |-> MoveStack(st.undoStack),
                       redoStack     |-> MoveStack(st.redoStack) ],
          handed |-> [hd EXCEPT !.items = Move(hd.items)] ]

(* a step of the reference-level session that ends with heap h (the heap    *)
(* before the step with the objects the step creates appended), state st    *)
(* and the caller holding hd; the session's value model is left alone       *)
RefStep(h, st, hd) ==
    LET c == RefCollected(h, st, hd)
    IN  /\ created' = created + Len(h) - Len(heap)
        /\ heap' = c.heap
        /\ hst' = c.st
        /\ handed' = c.handed
        /\ UNCHANGED <<currentIndex, imageStates, globalModified, cycle, appVars, textVars>>

(* the caller parses n boxes; new StateManager(); initImageState(0, them) *)
InitRef ==
    /\ \E n \in 1..Cardinality(BoxIds) :
          LET input == [i \in 1..n |-> i]
              made == RefNewImageState(ParsedBoxes(n), input)
              c == RefCollected(made.heap, made.st, [live |-> FALSE, items |-> input])
          IN  /\ heap = c.heap
              /\ hst = c.st
              /\ handed = c.handed
              /\ created = 0
    /\ currentIndex = 0
    /\ imageStates = EmptyMap
    /\ globalModified = {}
    /\ lastOp = "initImageState"
    /\ lastRet = "void"
    /\ cycle = NoCycle
    /\ AppIdle
    /\ TextIdle

refDeleteSelected ==
    /\ lastOp' = "deleteSelected"
    /\ LET selected == RefSelectedLive(heap, hst.boxes)
       IN  IF Len(selected) = 0
           THEN /\ lastRet' = 0
                /\ RefStep(heap, hst, handed)
           ELSE LET rec == RefRecordAction(heap, hst, "delete", selected)
                IN  /\ lastRet' = Len(selected)
                    /\ RefStep(RefMark(rec.heap, selected, TRUE), rec.st, handed)

refRestoreDeleted(onlySelected) ==
    /\ lastOp' = "restoreDeleted"
    /\ LET toRestore == RefToRestore(heap, hst.boxes, onlySelected)
       IN  IF Len(toRestore) = 0
           THEN /\ lastRet' = 0
                /\ RefStep(heap, hst, handed)
           ELSE LET rec == RefRecordAction(heap, hst, "restore", toRestore)
                IN  /\ lastRet' = Len(toRestore)
                    /\ RefStep(RefMark(rec.heap, toRestore, FALSE), rec.st, handed)

(* the loops of undo() over action.boxes: a 'delete' is reversed, a         *)
(* 'restore' re-deleted, an Action of any other type touches no box         *)
RefUndoBoxes(h, working, action) ==
    IF action.type = "delete" THEN RefReplayAll(h, working, action.boxes, FALSE)
    ELSE IF action.type = "restore" THEN RefReplayAll(h, working, action.boxes, TRUE)
    ELSE h

(* the loops of redo(): a 'delete' is re-applied, a 'restore' restored      *)
(* again, an Action of any other type touches no box                        *)
RefRedoBoxes(h, working, action) ==
    IF action.type = "delete" THEN RefReplayAll(h, working, action.boxes, TRUE)
    ELSE IF action.type = "restore" THEN RefReplayAll(h, working, action.boxes, FALSE)
    ELSE h

refUndo ==
    /\ lastOp' = "undo"
    /\ IF Len(hst.undoStack) = 0
       THEN /\ lastRet' = FALSE
            /\ RefStep(heap, hst, handed)
       ELSE LET action == Top(hst.undoStack)
            IN  /\ lastRet' = TRUE
                /\ RefStep(RefUndoBoxes(heap, hst.boxes, action),
                           [hst EXCEPT !.undoStack = Pop(hst.undoStack),
                                       !.redoStack = Append(hst.redoStack, action)],
                           handed)

refRedo ==
    /\ lastOp' = "redo"
    /\ IF Len(hst.redoStack) = 0
       THEN /\ lastRet' = FALSE
            /\ RefStep(heap, hst, handed)
       ELSE LET action == Top(hst.redoStack)
            IN  /\ lastRet' = TRUE
                /\ RefStep(RefRedoBoxes(heap, hst.boxes, action),
                           [hst EXCEPT !.redoStack = Pop(hst.redoStack),
                                       !.undoStack = Append(hst.undoStack, action)],
                           handed)

(* selectAll / clearSelection: the loops over state.boxes *)
refSelectAll ==
    /\ lastOp' = "selectAll"
    /\ lastRet' = "void"
    /\ RefStep([a \in 1..Len(heap) |->
                   IF a \in RefAddrs(hst.boxes) /\ ~heap[a].deleted
                   THEN [heap[a] EXCEPT !.selected = TRUE] ELSE heap[a]],
               hst, handed)

refClearSelection ==
    /\ lastOp' = "clearSelection"
    /\ lastRet' = "void"
    /\ RefStep([a \in 1..Len(heap) |->
                   IF a \in RefAddrs(hst.boxes)
                   THEN [heap[a] EXCEPT !.selected = FALSE] ELSE heap[a]],
               hst, handed)

(* getCurrentBoxes: return state.boxes, the array itself *)
refGetCurrentBoxes ==
    /\ lastOp' = "getCurrentBoxes"
    /\ lastRet' = "void"
    /\ RefStep(heap, hst, [live |-> TRUE, items |-> <<>>])

(* getBoxesForSave: state.boxes.filter(b => !b.deleted), a new array of the *)
(* same objects                                                             *)
refGetBoxesForSave ==
    /\ lastOp' = "getBoxesForSave"
    /\ lastRet' = "void"
    /\ RefStep(heap, hst, [live |-> FALSE, items |-> RefLive(heap, hst.boxes)])

(* what main.js selectionRect holds when finalizeSelectionRect is called:   *)
(* null, a rectangle under 3 px in width or height, or a larger one         *)
Rects == {"null", "small", "drawn"}

(* main.js finalizeSelectionRect: it returns at once without a rectangle    *)
(* and for one under 3 px; else boxes = getCurrentBoxes(), and for every    *)
(* box b of boxes that is not deleted and intersects: b.selected = true     *)
refFinalizeSelectionRect(rect, hit) ==
    /\ lastOp' = "finalizeSelectionRect"
    /\ lastRet' = "void"
    /\ IF rect # "drawn"
       THEN RefStep(heap, hst, handed)
       ELSE LET boxes == hst.boxes
            IN  RefStep([a \in 1..Len(heap) |->
                            IF a \in RefAddrs(boxes) /\ ~heap[a].deleted /\ heap[a].id \in hit
                            THEN [heap[a] EXCEPT !.selected = TRUE] ELSE heap[a]],
                        hst, [live |-> TRUE, items |-> <<>>])

(* markSaved: two cloneBoxes of the non-deleted boxes, stacks emptied *)
refMarkSaved ==
    /\ lastOp' = "markSaved"
    /\ lastRet' = "void"
    /\ LET nonDeleted == RefLive(heap, hst.boxes)
           h1 == RefCloned(heap, nonDeleted)
       IN  RefStep(RefCloned(h1, nonDeleted),
                   [ boxes         |-> RefFresh(h1, nonDeleted),
                     originalBoxes |-> RefFresh(heap, nonDeleted),
                     undoStack     |-> <<>>,
                     redoStack     |-> <<>> ],
                   HandedAfterReplace)

(* toggleBoxSelection: find the working box by id, flip selected unless it  *)
(* is deleted                                                               *)
refToggleBoxSelection(boxId) ==
    /\ lastOp' = "toggleBoxSelection"
    /\ lastRet' = "void"
    /\ LET i == RefFind(heap, hst.boxes, boxId)
       IN  RefStep(IF i # 0 /\ ~heap[hst.boxes[i]].deleted
                   THEN [heap EXCEPT ![hst.boxes[i]].selected = ~heap[hst.boxes[i]].selected]
                   ELSE heap,
                   hst, handed)

(* selectBox: clearSelection(), then selected = true on the box found *)
refSelectBox(boxId) ==
    /\ lastOp' = "selectBox"
    /\ lastRet' = "void"
    /\ LET cleared == [a \in 1..Len(heap) |->
                          IF a \in RefAddrs(hst.boxes)
                          THEN [heap[a] EXCEPT !.selected = FALSE] ELSE heap[a]]
           i == RefFind(cleared, hst.boxes, boxId)
       IN  RefStep(IF i # 0 /\ ~cleared[hst.boxes[i]].deleted
                   THEN [cleared EXCEPT ![hst.boxes[i]].selected = TRUE]
                   ELSE cleared,
                   hst, handed)

(* the arrays of working boxes a caller passes to recordAction: one box of  *)
(* state.boxes, or all of them when there are several                       *)
RefAffectedArrays ==
    { <<hst.boxes[i]>> : i \in 1..Len(hst.boxes) }
        \cup (IF Len(hst.boxes) > 1 THEN {hst.boxes} ELSE {})

(* stateManager.recordAction(type, affected) called from outside *)
refRecordActionCall(type, affected) ==
    /\ lastOp' = "recordAction"
    /\ lastRet' = "void"
    /\ LET rec == RefRecordAction(heap, hst, type, affected)
       IN  RefStep(rec.heap, rec.st, handed)

(* setCurrentBoxes(the array the caller holds): state.boxes becomes a new   *)
(* array of clones; a caller that held state.boxes itself holds the old     *)
(* array from then on                                                       *)
refSetCurrentBoxesHeld ==
    /\ lastOp' = "setCurrentBoxes"
    /\ lastRet' = "void"
    /\ LET input == IF handed.live THEN hst.boxes ELSE handed.items
       IN  RefStep(RefCloned(heap, input),
                   [hst EXCEPT !.boxes = RefFresh(heap, input)],
                   HandedAfterReplace)

(* what the second parse call of the label file returns, the first having   *)
(* returned the boxes the session was initialised with                      *)
RefBoxLists == { ParsedFrom(n + 1, n) : n \in 0..Cardinality(BoxIds) }

(* setCurrentBoxes(LabelParser.parse(text)): the caller holds the parsed    *)
(* boxes, new objects, and state.boxes becomes a new array of their clones  *)
refSetCurrentBoxesParsed(boxes) ==
    /\ lastOp' = "setCurrentBoxes"
    /\ lastRet' = "void"
    /\ LET h1 == heap \o boxes
           input == [i \in 1..Len(boxes) |-> Len(heap) + i]
       IN  RefStep(RefCloned(h1, input),
                   [hst EXCEPT !.boxes = RefFresh(h1, input)],
                   [live |-> FALSE, items |-> input])

(* resetCurrent: state.boxes = cloneBoxes(state.originalBoxes), stacks emptied *)
refResetCurrent ==
    /\ lastOp' = "resetCurrent"
    /\ lastRet' = "void"
    /\ RefStep(RefCloned(heap, hst.originalBoxes),
               [ boxes         |-> RefFresh(heap, hst.originalBoxes),
                 originalBoxes |-> hst.originalBoxes,
                 undoStack     |-> <<>>,
                 redoStack     |-> <<>> ],
               HandedAfterReplace)

(* SpecRef takes no step that would create a box object beyond MaxCreated *)
RefRoom == created' <= MaxCreated

NextRef ==
    \/ refDeleteSelected /\ RefRoom
    \/ \E onlySelected \in BOOLEAN : refRestoreDeleted(onlySelected) /\ RefRoom
    \/ refUndo
    \/ refRedo
    \/ refSelectAll
    \/ refClearSelection
    \/ \E boxId \in Uuids : refToggleBoxSelection(boxId)
    \/ \E boxId \in Uuids : refSelectBox(boxId)
    \/ refGetCurrentBoxes
    \/ refGetBoxesForSave
    \/ \E rect \in Rects, hit \in SUBSET IdsOf(Deref(heap, hst.boxes)) :
            /\ rect # "drawn" => hit = {}
            /\ refFinalizeSelectionRect(rect, hit)
    \/ refMarkSaved /\ RefRoom
    \/ \E affected \in RefAffectedArrays :
            \E type \in {"delete", "move"} : refRecordActionCall(type, affected) /\ RefRoom
    \/ refSetCurrentBoxesHeld /\ RefRoom
    \/ \E boxes \in RefBoxLists : refSetCurrentBoxesParsed(boxes) /\ RefRoom
    \/ refResetCurrent /\ RefRoom

SpecRef == InitRef /\ [][NextRef]_vars

----------------------------------------------------------------------------
(* An LRUCache on its own: new LRUCache(C) for a small C, then get, set,    *)
(* has, delete and clear with keys of CacheKeys; every set stores a value   *)
(* never stored before.  lastUsed and clock record, for the keys the cache  *)
(* holds, when each was last read by get or written by set.                 *)

CacheSizes == 1..2

MaxCacheOps == 5    \* SpecCache makes no get or set beyond this many

CacheFrame ==
    UNCHANGED <<currentIndex, imageStates, globalModified, cycle, refVars, textVars, labelCache,
                datasetCount, uiIndex, pending, readOnly, labelHandles, currentBitmap,
                selectionRect,
                reads, cacheMaxSize>>

(* lastUsed restricted to the keys the cache c holds *)
UsedIn(used, c) == [k \in CacheKeys |-> IF k \in LruKeys(c) THEN used[k] ELSE 0]

(* new StateManager(); new LRUCache(C) *)
InitCache ==
    /\ currentIndex = -1
    /\ imageStates = EmptyMap
    /\ globalModified = {}
    /\ lastOp = "constructor"
    /\ lastRet = "void"
    /\ cycle = NoCycle
    /\ RefIdle
    /\ TextIdle
    /\ LoaderIdle
    /\ cacheMaxSize \in CacheSizes

lruGet(key) ==
    /\ clock < MaxCacheOps
    /\ LET r == LruGet(imageCache, key)
       IN  /\ imageCache' = r.cache
           /\ lastRet' = r.ret
           /\ clock' = IF r.ret # 0 THEN clock + 1 ELSE clock
           /\ lastUsed' = IF r.ret # 0 THEN [lastUsed EXCEPT ![key] = clock + 1]
                                       ELSE lastUsed
    /\ lastOp' = "get"
    /\ UNCHANGED <<closeLog, nextBitmap>>
    /\ CacheFrame

lruSet(key) ==
    /\ clock < MaxCacheOps
    /\ LET r == LruSet(imageCache, cacheMaxSize, key, nextBitmap)
       IN  /\ imageCache' = r.cache
           /\ closeLog' = closeLog \o r.closed
           /\ lastUsed' = UsedIn([lastUsed EXCEPT ![key] = clock + 1], r.cache)
    /\ clock' = clock + 1
    /\ nextBitmap' = nextBitmap + 1
    /\ lastOp' = "set"
    /\ lastRet' = "void"
    /\ CacheFrame

lruHas(key) ==
    /\ lastOp' = "has"
    /\ lastRet' = LruHas(imageCache, key)
    /\ UNCHANGED <<imageCache, closeLog, lastUsed, clock, nextBitmap>>
    /\ CacheFrame

lruDelete(key) ==
    /\ LET r == LruDelete(imageCache, key)
       IN  /\ imageCache' = r.cache
           /\ closeLog' = closeLog \o r.closed
           /\ lastRet' = r.ret
           /\ lastUsed' = UsedIn(lastUsed, r.cache)
    /\ lastOp' = "delete"
    /\ UNCHANGED <<clock, nextBitmap>>
    /\ CacheFrame

lruClear ==
    /\ LET r == LruClear(imageCache)
       IN  /\ imageCache' = r.cache
           /\ closeLog' = closeLog \o r.closed
           /\ lastUsed' = UsedIn(lastUsed, r.cache)
    /\ lastOp' = "clear"
    /\ lastRet' = "void"
    /\ UNCHANGED <<clock, nextBitmap>>
    /\ CacheFrame

NextCache ==
    \/ \E key \in CacheKeys : lruGet(key)
    \/ \E key \in CacheKeys : lruSet(key)
    \/ \E key \in CacheKeys : lruHas(key)
    \/ \E key \in CacheKeys : lruDelete(key)
    \/ lruClear

SpecCache == InitCache /\ [][NextCache]_vars

----------------------------------------------------------------------------
(* The application: main.js driving StateManager and DatasetLoader (label   *)
(* cache, image cache, file reads).  An async function runs from one await  *)
(* to the next in one step, and a continuation whose awaited promises have  *)
(* all settled runs in the step that settles the last of them.  pending     *)
(* holds the calls suspended at an await, reads the image reads in flight.  *)
(* Every image has a label file, which parses to one box: an entry of a     *)
(* folder opened with the picker has a labelHandle, an entry of a dropped   *)
(* folder a labelFile.  (An image without a label file has no box, so no    *)
(* handler can modify it and no save reaches createLabelFile.)  Label reads *)
(* and image reads succeed or fail as the actions say.  With one box per    *)
(* image a modified image is one whose box is deleted, so the array a save  *)
(* is handed is empty.  DatasetLoader's per-entry flags (modified,          *)
(* boxCount) and the DOM are left out: no handler modelled here reads them. *)

(* LabelParser.parse of an image's label file *)
FileBoxes == ParsedBoxes(1)

(* the dataset a dropped folder holds: the number of its images *)
FolderCount == Cardinality(Images)

(* preloadAdjacent(currentIndex, range = 2) *)
prefetchRange == 2

hasImageSelected == uiIndex >= 0 /\ uiIndex < datasetCount

(* DatasetLoader.updateLabelCache(index, boxes) *)
updateLabelCache(cache, count, index, boxes) ==
    IF index >= 0 /\ index < count THEN MapSet(cache, index, cloneBoxes(boxes)) ELSE cache

(* A suspended call.  selectImage(index): hit says that loadLabels has      *)
(* settled, with boxes the array it returned; bitmap is what loadImage      *)
(* returned, 0 while it waits for its read, -1 for null.  doSaveAll: index  *)
(* is the image whose save is awaited (-1 while the zip download is), boxes *)
(* the boxes handed to saveLabels, rest the modified indices still to do.   *)
(* A save holds the array getBoxesForSave() returned, whose elements are    *)
(* the working box objects of an image: boxes is what they held when        *)
(* saveLabels serialised them, from the image whose working boxes they      *)
(* still are (-1 once that image's working array was replaced or dropped,   *)
(* and for an empty array), objs what they held when that happened.         *)
(* Two calls suspended with the same values are two calls: n numbers the    *)
(* copies, from 0.                                                          *)
Call(op, index, hit, boxes, bitmap, rest) ==
    [op |-> op, index |-> index, hit |-> hit, boxes |-> boxes, bitmap |-> bitmap,
     rest |-> rest, from |-> -1, objs |-> <<>>, n |-> 0]

(* the calls of pend that hold the values of c *)
Copies(pend, c) == { d \in pend : [d EXCEPT !.n = 0] = [c EXCEPT !.n = 0] }

(* pend with the call c suspended as well *)
Suspend(pend, c) == pend \cup {[c EXCEPT !.n = Cardinality(Copies(pend, c))]}

(* pend once the call c (any one of its copies) has gone on *)
Resumed(pend, c) == pend \ {[c EXCEPT !.n = Cardinality(Copies(pend, c)) - 1]}

PendingSelect(index, hit, boxes, bitmap) == Call("selectImage", index, hit, boxes, bitmap, <<>>)

(* a suspended loadFromDrop, waiting for fileManager.handleDrop *)
PendingDrop == Call("loadFromDrop", -1, FALSE, <<>>, 0, <<>>)

(* a suspended loadFromFolderPicker: the picker has returned a folder and   *)
(* fileManager.openFolder waits for findSubfolders                          *)
PendingOpenFolder == Call("loadFromFolderPicker", -1, FALSE, <<>>, 0, <<>>)

(* the same call further on, inside datasetLoader.loadDataset, waiting for  *)
(* scanImages and scanLabels                                                *)
PendingLoadDataset == Call("loadDataset", -1, FALSE, <<>>, 0, <<>>)

(* stateManager.getBoxesForSave() with the current index at index *)
BoxesForSaveAt(states, index) ==
    IF index \in DOMAIN states THEN SelectSeq(states[index].boxes, IsLive) ELSE <<>>

(* stateManager.getCurrentBoxes() with the current index at index *)
CurrentBoxesAt(states, index) ==
    IF index \in DOMAIN states THEN states[index].boxes ELSE <<>>

(* the call c holding the boxes getBoxesForSave() returned with the         *)
(* session's current index at from                                          *)
Holding(c, from) == IF c.boxes = <<>> THEN c ELSE [c EXCEPT !.from = from]

(* what the box objects a suspended save holds hold now *)
HeldBoxes(states, c) ==
    IF c.from = -1 THEN c.objs
    ELSE LET Held(b) == b.id \in IdsOf(c.boxes)
         IN  SelectSeq(CurrentBoxesAt(states, c.from), Held)

(* pend once the working arrays of the images of indices were replaced      *)
(* (markSaved puts clones in their place, clearAll drops the states): the   *)
(* box objects a suspended save holds of them are changed by nothing any    *)
(* more.  states is the session before the replacement.                     *)
RECURSIVE Detached(_, _, _)
Detached(pend, states, indices) ==
    IF \A c \in pend : c.from \notin indices THEN pend
    ELSE LET c == CHOOSE d \in pend : d.from \in indices
         IN  Detached(Suspend(pend \ {c},
                              [c EXCEPT !.from = -1, !.objs = HeldBoxes(states, c)]),
                      states, indices)

(* a suspended doSaveAll: in the writable branch waiting for                *)
(* saveLabels(index, boxes), with rest the modified indices still to do     *)
PendingSaveAll(index, boxes, rest) ==
    Holding(Call("doSaveAll", index, FALSE, boxes, 0, rest), index)

SessionIdle == UNCHANGED <<currentIndex, imageStates, globalModified, lastOp, lastRet, cycle>>

(* the session as a value, and the step that leaves it at s *)
Session ==
    [states |-> imageStates, modified |-> globalModified, cur |-> currentIndex,
     op |-> lastOp, ret |-> lastRet, cycle |-> cycle]

SessionBecomes(s) ==
    /\ imageStates' = s.states
    /\ globalModified' = s.modified
    /\ currentIndex' = s.cur
    /\ lastOp' = s.op
    /\ lastRet' = s.ret
    /\ cycle' = s.cycle

(* initImageState(index, boxes) called on the session s *)
InitImageStateOn(s, index, boxes) ==
    [states |-> IF index \in DOMAIN s.states THEN s.states
                ELSE MapSet(s.states, index, NewImageState(boxes)),
     modified |-> s.modified,
     cur |-> index,
     op |-> "initImageState",
     ret |-> "void",
     cycle |-> IF s.states = EmptyMap /\ s.modified = {}
               THEN [phase |-> "init", index |-> index, n |-> LiveCount(boxes), k |-> 0]
               ELSE NoCycle]

(* the session after a deleteSelected() that deletes at least one box *)
DeleteSelectedSession ==
    LET selected == SelectSeq(CurState.boxes, IsSelectedLive)
        recorded == recordAction(CurState, "delete", selected)
        st == [recorded EXCEPT !.boxes = DeleteMarked(recorded.boxes)]
    IN  [states |-> [imageStates EXCEPT ![currentIndex] = st],
         modified |-> markModified(st, globalModified, currentIndex),
         cur |-> currentIndex,
         op |-> "deleteSelected",
         ret |-> Len(selected),
         cycle |-> IF cycle.phase = "init"
                   THEN [cycle EXCEPT !.phase = "deleted", !.k = Len(selected)]
                   ELSE IF cycle.phase = "undone"
                   THEN [cycle EXCEPT !.phase = "rerecorded"]
                   ELSE NoCycle]

LruGhost == UNCHANGED <<cacheMaxSize, lastUsed, clock>>

(* DatasetLoader.loadImage(index) up to its await: null out of range, the   *)
(* cached bitmap (imageCache.get moves it to the end), or a read in flight  *)
LoadImageStart(ic, rds, index, count, forSelect) ==
    IF index < 0 \/ index >= count
    THEN [cache |-> ic, reads |-> rds, bitmap |-> -1]
    ELSE IF LruGet(ic, index).ret # 0
    THEN [cache |-> LruGet(ic, index).cache, reads |-> rds, bitmap |-> LruGet(ic, index).ret]
    ELSE [cache |-> ic, reads |-> Append(rds, [index |-> index, select |-> forSelect]),
          bitmap |-> 0]

(* the indices preloadAdjacent loads, in loop order *)
PreloadTargets(index, count) ==
    LET all == [j \in 1..(2 * prefetchRange) |->
                   index + (IF j <= prefetchRange THEN j - prefetchRange - 1
                                                  ELSE j - prefetchRange)]
        InRange(t) == t >= 0 /\ t < count
    IN  SelectSeq(all, InRange)

(* preloadAdjacent: loadImage on each target, none awaited *)
RECURSIVE Preload(_, _, _, _)
Preload(ic, rds, targets, count) ==
    IF targets = <<>> THEN [cache |-> ic, reads |-> rds]
    ELSE LET li == LoadImageStart(ic, rds, Head(targets), count, FALSE)
         IN  Preload(li.cache, li.reads, Tail(targets), count)

(* selectImage after its await, with loadImage and loadLabels settled to    *)
(* bitmap and labels, the session at s, the label cache at lc, the image    *)
(* cache at ic, the reads in flight rds and the other suspended calls pend  *)
SelectTail(s, index, bitmap, labels, lc, ic, rds, pend) ==
    /\ pending' = pend
    /\ IF bitmap <= 0
       THEN /\ labelCache' = lc
            /\ imageCache' = ic
            /\ reads' = rds
            /\ UNCHANGED currentBitmap
            /\ SessionBecomes(s)
       ELSE /\ currentBitmap' = bitmap
            /\ SessionBecomes(InitImageStateOn(s, index, labels))
            /\ labelCache' = updateLabelCache(lc, datasetCount, index,
                                              imageStates'[index].boxes)
            /\ LET p == Preload(ic, rds, PreloadTargets(index, datasetCount), datasetCount)
               IN  /\ imageCache' = p.cache
                   /\ reads' = p.reads

(* the body of selectImage(index), index in range, with the session at s    *)
(* and the label cache at lc: up to its await, and beyond it when both the  *)
(* bitmap and the labels come from the caches                               *)
SelectImage(s, lc, index) ==
    /\ uiIndex' = index
    /\ selectionRect' = FALSE
    /\ LET li == LoadImageStart(imageCache, reads, index, datasetCount, TRUE)
           hit == index \in DOMAIN lc
           labels == IF hit THEN cloneBoxes(lc[index]) ELSE <<>>
       IN  IF li.bitmap # 0 /\ hit
           THEN SelectTail(s, index, li.bitmap, labels, lc, li.cache, li.reads, pending)
           ELSE /\ pending' = Suspend(pending, PendingSelect(index, hit, labels, li.bitmap))
                /\ imageCache' = li.cache
                /\ reads' = li.reads
                /\ labelCache' = lc
                /\ UNCHANGED currentBitmap
                /\ SessionBecomes(s)
    /\ UNCHANGED <<datasetCount, readOnly, labelHandles, nextBitmap, closeLog, refVars, textVars>>
    /\ LruGhost

(* selectImage(index): returns at once when index is out of range *)
selectImageStart(index) ==
    IF index >= 0 /\ index < datasetCount
    THEN SelectImage(Session, labelCache, index)
    ELSE UNCHANGED vars

(* reads without its i-th element *)
ReadsWithout(i) == SubSeq(reads, 1, i - 1) \o SubSeq(reads, i + 1, Len(reads))

(* the i-th read in flight completes: loadImage caches the new bitmap and   *)
(* returns it (ok), or catches the error and returns null; a selectImage    *)
(* waiting for it goes on if its labels have settled                        *)
readDone(i, ok) ==
    /\ i \in 1..Len(reads)
    /\ LET r == reads[i]
           bitmap == IF ok THEN nextBitmap ELSE -1
           st == IF ok THEN LruSet(imageCache, cacheMaxSize, r.index, nextBitmap)
                       ELSE [cache |-> imageCache, closed |-> <<>>]
           waiting == { c \in pending :
                          c.op = "selectImage" /\ c.index = r.index /\ c.bitmap = 0 }
       IN  /\ nextBitmap' = IF ok THEN nextBitmap + 1 ELSE nextBitmap
           /\ closeLog' = closeLog \o st.closed
           /\ IF r.select /\ waiting # {}
              THEN \E c \in waiting :
                      IF c.hit
                      THEN SelectTail(Session, c.index, bitmap, c.boxes, labelCache,
                                      st.cache, ReadsWithout(i), Resumed(pending, c))
                      ELSE /\ pending' = Suspend(Resumed(pending, c),
                                                 [c EXCEPT !.bitmap = bitmap])
                           /\ imageCache' = st.cache
                           /\ reads' = ReadsWithout(i)
                           /\ UNCHANGED <<labelCache, currentBitmap>>
                           /\ SessionIdle
              ELSE /\ imageCache' = st.cache
                   /\ reads' = ReadsWithout(i)
                   /\ UNCHANGED <<labelCache, currentBitmap, pending>>
                   /\ SessionIdle
    /\ UNCHANGED <<datasetCount, uiIndex, readOnly, labelHandles, selectionRect, refVars,
                   textVars>>
    /\ LruGhost

(* the label read of a suspended selectImage completes: loadLabels parses,  *)
(* caches the boxes and returns a clone (part_001 l.205-211); selectImage   *)
(* goes on if its bitmap has settled                                        *)
labelsDone(call) ==
    /\ call \in pending
    /\ call.op = "selectImage"
    /\ ~call.hit
    /\ LET lc == MapSet(labelCache, call.index, FileBoxes)
           labels == cloneBoxes(FileBoxes)
       IN  IF call.bitmap # 0
           THEN SelectTail(Session, call.index, call.bitmap, labels, lc, imageCache, reads,
                           Resumed(pending, call))
           ELSE /\ pending' = Suspend(Resumed(pending, call),
                                      [call EXCEPT !.hit = TRUE, !.boxes = labels])
                /\ labelCache' = lc
                /\ UNCHANGED <<imageCache, reads, currentBitmap>>
                /\ SessionIdle
    /\ UNCHANGED <<datasetCount, uiIndex, readOnly, labelHandles, selectionRect, nextBitmap, closeLog,
                   refVars, textVars>>
    /\ LruGhost

(* loadFromDrop up to the await of handleDrop: resetAppState, and the first *)
(* statement of handleDrop (isReadOnly = true)                              *)
loadFromDropStart ==
    /\ uiIndex' = -1
    /\ currentBitmap' = 0
    /\ selectionRect' = FALSE
    /\ clearAll
    /\ readOnly' = TRUE
    /\ pending' = Suspend(Detached(pending, imageStates, DOMAIN imageStates), PendingDrop)
    /\ UNCHANGED <<labelCache, datasetCount, labelHandles, reads, nextBitmap, imageCache, closeLog, refVars, textVars>>
    /\ LruGhost

(* the rest of loadFromDrop: DatasetLoader.loadFromDrop clears the caches   *)
(* (closing every cached bitmap) and builds the index of the dropped folder *)
loadFromDropResume(call) ==
    /\ call \in pending
    /\ call.op = "loadFromDrop"
    /\ pending' = Resumed(pending, call)
    /\ labelCache' = EmptyMap
    /\ imageCache' = LruClear(imageCache).cache
    /\ closeLog' = closeLog \o LruClear(imageCache).closed
    /\ datasetCount' = FolderCount
    /\ labelHandles' = {}
    /\ UNCHANGED <<uiIndex, readOnly, currentBitmap, selectionRect, reads, nextBitmap,
                   refVars, textVars>>
    /\ LruGhost
    /\ SessionIdle

(* loadFromFolderPicker (button, Ctrl+O) once a directory picker has        *)
(* returned a folder: the one openFolder opens with mode 'readwrite'        *)
(* (isReadOnly = false), or, when that one threw anything but an            *)
(* AbortError, the second one, with mode 'read' (isReadOnly = true);        *)
(* openFolder then waits for findSubfolders.  Until a picker returns, and   *)
(* when it is cancelled, nothing is written.                                *)
loadFromFolderPickerStart(mode) ==
    /\ readOnly' = (mode = "read")
    /\ pending' = Suspend(pending, PendingOpenFolder)
    /\ UNCHANGED <<labelCache, datasetCount, labelHandles, uiIndex, currentBitmap, selectionRect, reads,
                   nextBitmap, imageCache, closeLog, refVars, textVars>>
    /\ LruGhost
    /\ SessionIdle

(* openFolder has returned: resetAppState, then datasetLoader.loadDataset   *)
(* up to its await of scanImages: clear() empties the index and the caches  *)
(* (closing every cached bitmap)                                            *)
loadFromFolderPickerResume(call) ==
    /\ call \in pending
    /\ call.op = "loadFromFolderPicker"
    /\ uiIndex' = -1
    /\ currentBitmap' = 0
    /\ selectionRect' = FALSE
    /\ clearAll
    /\ pending' = Suspend(Detached(Resumed(pending, call), imageStates, DOMAIN imageStates),
                          PendingLoadDataset)
    /\ labelHandles' = {}
    /\ labelCache' = EmptyMap
    /\ imageCache' = LruClear(imageCache).cache
    /\ closeLog' = closeLog \o LruClear(imageCache).closed
    /\ datasetCount' = 0
    /\ UNCHANGED <<readOnly, reads, nextBitmap, refVars, textVars>>
    /\ LruGhost

(* scanImages and scanLabels have returned: loadDataset pushes an entry for *)
(* every image of the folder onto the index, with the handle of its label   *)
(* file                                                                     *)
loadDatasetResume(call) ==
    /\ call \in pending
    /\ call.op = "loadDataset"
    /\ pending' = Resumed(pending, call)
    /\ datasetCount' = datasetCount + FolderCount
    /\ labelHandles' = labelHandles \cup (datasetCount..(datasetCount + FolderCount - 1))
    /\ UNCHANGED <<labelCache, uiIndex, readOnly, currentBitmap, selectionRect, reads,
                   nextBitmap, imageCache, closeLog, refVars, textVars>>
    /\ LruGhost
    /\ SessionIdle

(* what a canvas pointer handler leaves alone *)
CanvasFrame ==
    /\ UNCHANGED <<labelCache, datasetCount, uiIndex, pending, readOnly, labelHandles,
                   currentBitmap, reads,
                   nextBitmap, imageCache, closeLog, refVars, textVars>>
    /\ LruGhost

(* what a handler that only calls the session leaves alone *)
LoaderFrame ==
    /\ UNCHANGED <<datasetCount, uiIndex, pending, readOnly, labelHandles, currentBitmap,
                   selectionRect,
                   reads, nextBitmap, imageCache, closeLog, refVars, textVars>>
    /\ LruGhost

(* main.js getBoxUnderPoint: the last box of the array that is not deleted  *)
(* and holds the point, null (here the empty sequence) if there is none;    *)
(* under is the ids of the boxes whose rectangle holds the point            *)
getBoxUnderPoint(boxes, under) ==
    LET at == { i \in 1..Len(boxes) : ~boxes[i].deleted /\ boxes[i].id \in under }
    IN  IF at = {} THEN <<>>
        ELSE <<boxes[CHOOSE i \in at : \A j \in at : j <= i]>>

(* pointerdown on the canvas, main button, no dialog open.  With shift it   *)
(* starts a selection rectangle and does nothing else; without, it acts on  *)
(* the box under the point (ctrlKey stands for e.ctrlKey || e.metaKey).     *)
pointerdown(under, shiftKey, ctrlKey) ==
    /\ hasImageSelected
    /\ IF shiftKey
       THEN /\ selectionRect' = TRUE
            /\ SessionIdle
       ELSE /\ LET box == getBoxUnderPoint(getCurrentBoxes, under)
               IN  IF box = <<>> THEN clearSelection
                   ELSE IF ctrlKey THEN toggleBoxSelection(box[1].id)
                   ELSE selectBox(box[1].id)
            /\ UNCHANGED selectionRect
    /\ CanvasFrame

(* pointerup on the canvas.  It tests only that a rectangle is being drawn  *)
(* and that the pointer is the one that started it (samePointer); then      *)
(* finalizeSelectionRect(true) and the rectangle is dropped.  The corners   *)
(* pointermove has written come in as hit, the ids of the boxes the         *)
(* rectangle intersects (none for a rectangle under 3 px).                  *)
pointerup(samePointer, hit) ==
    IF selectionRect /\ samePointer
    THEN /\ finalizeSelectionRect(hit)
         /\ selectionRect' = FALSE
         /\ CanvasFrame
    ELSE UNCHANGED vars

(* pointercancel on the canvas *)
pointercancel ==
    /\ selectionRect' = FALSE
    /\ SessionIdle
    /\ CanvasFrame

(* the Select All button and Ctrl+A *)
onSelectAll ==
    /\ hasImageSelected
    /\ selectAll
    /\ UNCHANGED labelCache
    /\ LoaderFrame

(* the Escape key: past the hasDatasetLoaded() test of the keydown handler *)
onEscape ==
    /\ datasetCount > 0
    /\ clearSelection
    /\ UNCHANGED labelCache
    /\ LoaderFrame

(* doDeleteSelected, doUndo, doRedo: the session call, then, if it did      *)
(* something, updateLabelCache(currentIndex, stateManager.getCurrentBoxes()) *)
CacheAfterEdit(done) ==
    /\ labelCache' = IF done
                     THEN updateLabelCache(labelCache, datasetCount, uiIndex,
                                           IF currentIndex \in DOMAIN imageStates'
                                           THEN imageStates'[currentIndex].boxes ELSE <<>>)
                     ELSE labelCache
    /\ LoaderFrame

(* doDeleteSelected(goNext): Delete, d and the button pass false, q true.   *)
(* With goNext, after a delete that deleted something, selectImage is       *)
(* called on the next image, if there is one.                               *)
doDeleteSelected(goNext) ==
    /\ hasImageSelected
    /\ LET deleted == IF HasState(currentIndex)
                      THEN Len(SelectSeq(CurState.boxes, IsSelectedLive)) ELSE 0
           next == IF datasetCount - 1 < uiIndex + 1 THEN datasetCount - 1 ELSE uiIndex + 1
       IN  IF goNext /\ deleted > 0 /\ next # uiIndex
           THEN SelectImage(DeleteSelectedSession,
                            updateLabelCache(labelCache, datasetCount, uiIndex,
                                DeleteSelectedSession.states[currentIndex].boxes),
                            next)
           ELSE /\ deleteSelected
                /\ CacheAfterEdit(lastRet' > 0)

doUndo ==
    /\ hasImageSelected
    /\ undo
    /\ CacheAfterEdit(lastRet')

doRedo ==
    /\ hasImageSelected
    /\ redo
    /\ CacheAfterEdit(lastRet')

(* the orders in which doSaveAll may find the modified indices: the Set    *)
(* iterates in the order in which the indices were added                    *)
Orders(set) ==
    { order \in [1..Cardinality(set) -> set] :
          \A i, j \in 1..Cardinality(set) : i # j => order[i] # order[j] }

(* mutant of SaveAllMarked: nothing is committed after the save *)
SaveAllMarked_NoCommit(states, modified, lc, order) ==
    [states |-> states, modified |-> modified, cache |-> lc]

(* doSaveAll's loop body after a save: markSavedAt(idx), setCurrentIndex(idx), *)
(* updateLabelCache(idx, getCurrentBoxes()), for each idx of order in turn  *)
RECURSIVE SaveAllMarked(_, _, _, _)
SaveAllMarked(states, modified, lc, order) ==
    IF order = <<>> THEN [states |-> states, modified |-> modified, cache |-> lc]
    ELSE LET idx == Head(order)
             st == MarkSavedStates(states, idx)
         IN  SaveAllMarked(st, MarkSavedModified(states, modified, idx),
                           updateLabelCache(lc, datasetCount, idx, CurrentBoxesAt(st, idx)),
                           Tail(order))

SaveAllFrame ==
    /\ UNCHANGED <<datasetCount, uiIndex, readOnly, labelHandles, currentBitmap, selectionRect,
                   reads,
                   nextBitmap, imageCache, closeLog, refVars, textVars>>
    /\ LruGhost

(* DatasetLoader.saveLabels(index, boxes) up to the point where it waits    *)
(* for the file system: false for an index outside the dataset; for an      *)
(* entry without a handle (a dropped file) the download, and true; with a   *)
(* handle fileManager.saveLabel, which returns false at once when           *)
(* isReadOnly and otherwise waits for the write ("await")                   *)
saveLabels(index) ==
    IF index < 0 \/ index >= datasetCount THEN "false"
    ELSE IF index \notin labelHandles THEN "true"
    ELSE IF readOnly THEN "false"
    ELSE "await"

(* doSaveAll's writable loop over order, from the session at states,        *)
(* modified and the label cache at lc, with the images of done committed    *)
(* in this step already: each index is made current and saved; the loop     *)
(* goes on after a save that returned true without waiting, ends at one     *)
(* that returned false (break), and stops where saveLabels waits (waits is  *)
(* then what is left of order, the index waited for first)                  *)
RECURSIVE SaveAllLoop(_, _, _, _, _)
SaveAllLoop(states, modified, lc, order, done) ==
    LET End(ret, waits) ==
            [states |-> states, modified |-> modified, cache |-> lc, done |-> done,
             ret |-> ret, waits |-> waits]
    IN  IF order = <<>> THEN End("ok", <<>>)
        ELSE IF saveLabels(Head(order)) = "await" THEN End("await", order)
        ELSE IF saveLabels(Head(order)) = "false" THEN End("failed", <<>>)
        ELSE LET m == SaveAllMarked(states, modified, lc, <<Head(order)>>)
             IN  SaveAllLoop(m.states, m.modified, m.cache, Tail(order),
                             done \cup {Head(order)})

(* the step of doSaveAll that ran the loop to l, with pend the other        *)
(* suspended calls: the call waits for the save of the first index left,    *)
(* or, the loop over, has made main.js currentIndex the current index       *)
SaveAllGoesOn(l, pend) ==
    /\ imageStates' = l.states
    /\ globalModified' = l.modified
    /\ labelCache' = l.cache
    /\ IF l.waits = <<>>
       THEN /\ currentIndex' = uiIndex
            /\ pending' = Detached(pend, imageStates, l.done)
       ELSE /\ currentIndex' = Head(l.waits)
            /\ pending' = Suspend(Detached(pend, imageStates, l.done),
                                  PendingSaveAll(Head(l.waits),
                                                 BoxesForSaveAt(l.states, Head(l.waits)),
                                                 Tail(l.waits)))

(* doSaveAll up to its first await that waits.  With isReadOnly every       *)
(* modified index is made current in turn and serialised, then the zip      *)
(* download is awaited.  Otherwise the loop over the modified indices runs  *)
(* until saveLabels waits for a write, returns false, or the indices are    *)
(* done.  lastRet is "failed" when a saveLabels returned false.             *)
doSaveAllStart(order) ==
    /\ globalModified # {}
    /\ order \in Orders(globalModified)
    /\ lastOp' = "setCurrentIndex"
    /\ cycle' = NoCycle
    /\ IF readOnly
       THEN /\ currentIndex' = order[Len(order)]
            /\ pending' = Suspend(pending, PendingSaveAll(-1, <<>>, order))
            /\ lastRet' = "void"
            /\ UNCHANGED <<imageStates, globalModified, labelCache>>
       ELSE LET l == SaveAllLoop(imageStates, globalModified, labelCache, order, {})
            IN  /\ lastRet' = IF l.ret = "failed" THEN "failed" ELSE "void"
                /\ SaveAllGoesOn(l, pending)
    /\ SaveAllFrame

(* doSaveAll after an await.  outcome "ok": the awaited write or download   *)
(* succeeded; "failed": the write threw and saveLabel returned false;       *)
(* "threw": the awaited promise rejected (downloadAllAsZip imports JSZip    *)
(* from the network and catches nothing; saveLabels catches its errors), so *)
(* only finally runs and no method of the session is called.  After a      *)
(* write saveLabels caches clones of the boxes it was given, as they are    *)
(* now, the image is committed, and the loop goes on with the indices left. *)
(* lastRet is the outcome, "failed" also when a later saveLabels of this    *)
(* step returned false.                                                     *)
doSaveAllResume(call, outcome) ==
    /\ call \in pending
    /\ call.op = "doSaveAll"
    /\ SaveAllFrame
    /\ IF call.index = -1
       THEN /\ outcome \in {"ok", "threw"}
            /\ IF outcome = "ok"
               THEN LET m == SaveAllMarked(imageStates, globalModified, labelCache, call.rest)
                    IN  /\ lastOp' = "setCurrentIndex"
                        /\ lastRet' = "ok"
                        /\ cycle' = NoCycle
                        /\ imageStates' = m.states
                        /\ globalModified' = m.modified
                        /\ labelCache' = m.cache
                        /\ currentIndex' = uiIndex
                        /\ pending' = Detached(Resumed(pending, call), imageStates,
                                               Range(call.rest))
               ELSE /\ pending' = Resumed(pending, call)
                    /\ UNCHANGED <<currentIndex, imageStates, globalModified, labelCache,
                                   lastOp, cycle>>
                    /\ lastRet' = "threw"
       ELSE /\ outcome \in {"ok", "failed"}
            /\ lastOp' = "setCurrentIndex"
            /\ cycle' = NoCycle
            /\ IF outcome = "failed"
               THEN /\ lastRet' = "failed"
                    /\ pending' = Resumed(pending, call)
                    /\ currentIndex' = uiIndex
                    /\ UNCHANGED <<imageStates, globalModified, labelCache>>
               ELSE LET saved == MapSet(labelCache, call.index,
                                        cloneBoxes(HeldBoxes(imageStates, call)))
                        m == SaveAllMarked(imageStates, globalModified, saved,
                                           <<call.index>>)
                        l == SaveAllLoop(m.states, m.modified, m.cache, call.rest,
                                         {call.index})
                    IN  /\ lastRet' = IF l.ret = "failed" THEN "failed" ELSE "ok"
                        /\ SaveAllGoesOn(l, Resumed(pending, call))

(* a suspended doSaveCurrent, waiting for datasetLoader.saveLabels(index,   *)
(* boxes), with boxes the boxes of the session's current image, from        *)
PendingSaveCurrent(index, from, boxes) ==
    Holding(Call("doSaveCurrent", index, FALSE, boxes, 0, <<>>), from)

(* doSaveCurrent up to its first await that waits.  The boxes of the        *)
(* session's current image are handed to saveLabels under main.js           *)
(* currentIndex.  When saveLabels returns true without waiting (the         *)
(* download of a dropped file's labels), doSaveCurrent goes on to           *)
(* markSaved() and updateLabelCache(currentIndex, getCurrentBoxes()) before *)
(* any other handler runs; when it returns false without waiting            *)
(* (isReadOnly with a handle), nothing is changed.                          *)
doSaveCurrentStart ==
    /\ hasImageSelected
    /\ isCurrentModified
    /\ IF saveLabels(uiIndex) = "true"
       THEN /\ markSaved
            /\ labelCache' = updateLabelCache(labelCache, datasetCount, uiIndex,
                                              CurrentBoxesAt(imageStates', currentIndex))
            /\ pending' = Detached(pending, imageStates, {currentIndex})
       ELSE IF saveLabels(uiIndex) = "false"
       THEN /\ UNCHANGED <<labelCache, pending>>
            /\ SessionIdle
       ELSE /\ pending' = Suspend(pending,
                  PendingSaveCurrent(uiIndex, currentIndex,
                                     BoxesForSaveAt(imageStates, currentIndex)))
            /\ UNCHANGED labelCache
            /\ SessionIdle
    /\ SaveAllFrame

(* doSaveCurrent after the await of fileManager.saveLabel.  The write       *)
(* succeeded and saveLabels cached clones of the boxes it was given, as     *)
(* they are now (ok), or it threw and saveLabels returned false.  After a   *)
(* save: markSaved() and updateLabelCache(currentIndex, getCurrentBoxes()). *)
doSaveCurrentResume(call, ok) ==
    /\ call \in pending
    /\ call.op = "doSaveCurrent"
    /\ IF ok
       THEN LET saved == MapSet(labelCache, call.index,
                                cloneBoxes(HeldBoxes(imageStates, call)))
            IN  /\ markSaved
                /\ labelCache' = updateLabelCache(saved, datasetCount, uiIndex,
                                                  CurrentBoxesAt(imageStates', currentIndex))
                /\ pending' = Detached(Resumed(pending, call), imageStates, {currentIndex})
       ELSE /\ pending' = Resumed(pending, call)
            /\ UNCHANGED labelCache
            /\ SessionIdle
    /\ SaveAllFrame

(* One folder after another, dropped or opened with the picker, each with   *)
(* one image.  A read completes with a bitmap only while fewer than         *)
(* MaxAppBitmaps were created, a selectImage is issued only while no read   *)
(* is in flight, and a handler that may suspend is started only while fewer *)
(* than MaxSuspended calls are suspended.  The picker falls back to mode    *)
(* 'read' only for the first folder.  An image has one box, so its undo     *)
(* stack never holds more than one Action.                                  *)
MaxAppBitmaps == 2
MaxSuspended == 2

CanSuspend == Cardinality(pending) < MaxSuspended

NextApp ==
    \/ \E index \in Images : reads = <<>> /\ CanSuspend /\ selectImageStart(index)
    \/ \E i \in 1..Len(reads), ok \in BOOLEAN :
            (ok => nextBitmap <= MaxAppBitmaps) /\ readDone(i, ok)
    \/ \E call \in pending : labelsDone(call)
    \/ CanSuspend /\ loadFromDropStart
    \/ \E call \in pending : loadFromDropResume(call)
    \/ \E mode \in {"readwrite", "read"} :
            /\ mode = "read" => datasetCount = 0
            /\ CanSuspend
            /\ loadFromFolderPickerStart(mode)
    \/ \E call \in pending : loadFromFolderPickerResume(call)
    \/ \E call \in pending : loadDatasetResume(call)
    \/ \E under \in SUBSET IdsOf(FileBoxes), shiftKey, ctrlKey \in BOOLEAN :
            pointerdown(under, shiftKey, ctrlKey)
    \/ \E samePointer \in BOOLEAN, hit \in SUBSET IdsOf(FileBoxes) : pointerup(samePointer, hit)
    \/ pointercancel
    \/ onSelectAll
    \/ onEscape
    \/ \E goNext \in BOOLEAN :
            /\ goNext => (reads = <<>> /\ CanSuspend)
            /\ doDeleteSelected(goNext)
    \/ doUndo
    \/ doRedo

SpecApp == Init /\ [][NextApp]_vars

----------------------------------------------------------------------------
(* Saving: a dataset of two images is open, from the folder picker (its     *)
(* entries have handles) or from a drop (they have files), with isReadOnly  *)
(* false or true: a picker in mode 'read', or a load in flight, leaves a    *)
(* dataset with handles under isReadOnly, and one of dropped files under    *)
(* isReadOnly = false.  The user selects images, clicks boxes, deletes,     *)
(* undoes, redoes and saves all, and may drop a folder of one image while   *)
(* a doSaveAll waits for a write with indices still to do.  A selectImage   *)
(* is issued only while no other selectImage and no drop is in flight, and  *)
(* a doSaveAll only while no other doSaveAll is.                            *)

(* a doSaveAll call is suspended at an await *)
SavingAll == \E c \in pending : c.op = "doSaveAll"

InitSave ==
    /\ currentIndex = -1
    /\ imageStates = EmptyMap
    /\ globalModified = {}
    /\ lastOp = "constructor"
    /\ lastRet = "void"
    /\ cycle = NoCycle
    /\ RefIdle
    /\ TextIdle
    /\ labelCache = EmptyMap
    /\ datasetCount = Cardinality(ImagePair)
    /\ uiIndex = -1
    /\ pending = {}
    /\ readOnly \in BOOLEAN
    /\ labelHandles \in {{}, ImagePair}
    /\ currentBitmap = 0
    /\ selectionRect = FALSE
    /\ reads = <<>>
    /\ nextBitmap = 1
    /\ imageCache = <<>>
    /\ closeLog = <<>>
    /\ lastUsed = NoUse
    /\ clock = 0
    /\ cacheMaxSize = imageCacheSize

NextSave ==
    \/ \E index \in ImagePair :
            /\ reads = <<>>
            /\ \A c \in pending : c.op \notin {"selectImage", "loadFromDrop"}
            /\ selectImageStart(index)
    \/ \E i \in 1..Len(reads) : nextBitmap <= MaxAppBitmaps /\ readDone(i, TRUE)
    \/ \E call \in pending : labelsDone(call)
    \/ \E under \in SUBSET IdsOf(FileBoxes), ctrlKey \in BOOLEAN : pointerdown(under, FALSE, ctrlKey)
    \/ \E goNext \in BOOLEAN :
            /\ goNext => (reads = <<>> /\ \A c \in pending : c.op # "selectImage")
            /\ doDeleteSelected(goNext)
    \/ doUndo
    \/ doRedo
    \/ \E order \in Orders(globalModified) :
            (\A c \in pending : c.op # "doSaveAll") /\ doSaveAllStart(order)
    \/ \E call \in pending, outcome \in {"ok", "failed", "threw"} :
            doSaveAllResume(call, outcome)
    \/ (\E c \in pending : c.op = "doSaveAll" /\ c.rest # <<>>) /\ ~readOnly /\ loadFromDropStart
    \/ \E call \in pending : loadFromDropResume(call)

SpecSave == InitSave /\ [][NextSave]_vars

(* The same dataset and handlers, with doSaveCurrent (Ctrl+S) in the place  *)
(* of doSaveAll; a doSaveCurrent is issued only while fewer than            *)
(* MaxSuspended calls are suspended.                                        *)
NextSaveCurrent ==
    \/ \E index \in ImagePair :
            /\ reads = <<>>
            /\ \A c \in pending : c.op # "selectImage"
            /\ selectImageStart(index)
    \/ \E i \in 1..Len(reads) : nextBitmap <= MaxAppBitmaps /\ readDone(i, TRUE)
    \/ \E call \in pending : labelsDone(call)
    \/ \E under \in SUBSET IdsOf(FileBoxes), ctrlKey \in BOOLEAN : pointerdown(under, FALSE, ctrlKey)
    \/ \E goNext \in BOOLEAN :
            /\ goNext => (reads = <<>> /\ \A c \in pending : c.op # "selectImage")
            /\ doDeleteSelected(goNext)
    \/ doUndo
    \/ doRedo
    \/ CanSuspend /\ doSaveCurrentStart
    \/ \E call \in pending, ok \in BOOLEAN : doSaveCurrentResume(call, ok)

SpecSaveCurrent == InitSave /\ [][NextSaveCurrent]_vars

----------------------------------------------------------------------------
(* Browsing: a dataset of DatasetSize images is open and the user jumps     *)
(* down the image list, to images of ImageStops.  Each jump                 *)
(* prefetches the two neighbours on either side.  A selectImage is issued   *)
(* only while no other is in flight and at most MaxImageReads reads would   *)
(* be; the reads complete oldest first, except that the read a selectImage  *)
(* waits for may overtake the prefetch reads; at most MaxImageBitmaps       *)
(* bitmaps are created.                                                     *)

DatasetSize == 15
ImageStops == {2, 7, 12}
MaxImageReads == 13
MaxImageBitmaps == 15

InitImages ==
    /\ currentIndex = -1
    /\ imageStates = EmptyMap
    /\ globalModified = {}
    /\ lastOp = "constructor"
    /\ lastRet = "void"
    /\ cycle = NoCycle
    /\ RefIdle
    /\ TextIdle
    /\ labelCache = EmptyMap
    /\ datasetCount = DatasetSize
    /\ uiIndex = -1
    /\ pending = {}
    /\ readOnly = FALSE
    /\ labelHandles = 0..(DatasetSize - 1)
    /\ currentBitmap = 0
    /\ selectionRect = FALSE
    /\ reads = <<>>
    /\ nextBitmap = 1
    /\ imageCache = <<>>
    /\ closeLog = <<>>
    /\ lastUsed = NoUse
    /\ clock = 0
    /\ cacheMaxSize = imageCacheSize

NextImages ==
    \/ \E index \in ImageStops :
            /\ index > uiIndex
            /\ \A c \in pending : c.op # "selectImage"
            /\ Len(reads) + 2 * prefetchRange + 1 <= MaxImageReads
            /\ selectImageStart(index)
    \/ \E i \in 1..Len(reads) :
            /\ i = 1 \/ reads[i].select
            /\ nextBitmap <= MaxImageBitmaps
            /\ readDone(i, TRUE)
    \/ \E call \in pending : labelsDone(call)

SpecImages == InitImages /\ [][NextImages]_vars

----------------------------------------------------------------------------
(* Undoing everything: one image, initialised with boxes some of which may  *)
(* carry a tombstone; boxes are selected, deleted, restored, undone, redone, *)
(* committed and reset, and markModified(), updateModifiedState() and       *)
(* recordAction() with the first working box are also called from outside.  *)
(* setCurrentBoxes is not called, and no Action is recorded once the undo   *)
(* stack holds MaxFlagHist of them, so none is ever dropped.                *)

NextUndo ==
    \/ FlagHistRoom /\ deleteSelected /\ SessionOnly
    \/ \E onlySelected \in BOOLEAN : FlagHistRoom /\ restoreDeleted(onlySelected) /\ SessionOnly
    \/ undo /\ SessionOnly
    \/ redo /\ SessionOnly
    \/ selectAll /\ SessionOnly
    \/ clearSelection /\ SessionOnly
    \/ \E boxId \in BoxIds : toggleBoxSelection(boxId) /\ SessionOnly
    \/ markSaved /\ SessionOnly
    \/ resetCurrent /\ SessionOnly
    \/ markModifiedCall /\ SessionOnly
    \/ updateModifiedStateCall /\ SessionOnly
    \/ \E type \in ActionTypes, i \in 1..Len(CurState.boxes) :
            i = 1 /\ FlagHistRoom /\ recordActionCall(type, <<CurState.boxes[i]>>) /\ SessionOnly

SpecUndo == InitFlags /\ [][NextUndo]_vars

----------------------------------------------------------------------------
(* LabelParser.parse and LabelParser.serialize.                             *)
(*                                                                          *)
(* A coordinate is an integer count of 10^-7, so that toFixed(6) has a      *)
(* digit to round away.  A label file is the sequence of its lines (the     *)
(* pieces between '\n'), a line the sequence of its tokens (line.trim()     *)
(* split at whitespace; a blank line has none).  A token is a plain decimal *)
(* numeral with its value, a token that starts with '#', or any other text  *)
(* that neither parseInt nor parseFloat reads a number from.  A box here    *)
(* carries the geometry fields by name.                                     *)

Unit == 10000000    \* the coordinate 1.0

Num(n) == [kind |-> "num", value |-> n]
Junk == [kind |-> "junk", value |-> 0]
Hash == [kind |-> "hash", value |-> 0]

NaN == [nan |-> TRUE, v |-> 0]

(* parseFloat(token) *)
parseFloat(tok) ==
    IF tok.kind = "num" THEN [nan |-> FALSE, v |-> tok.value] ELSE NaN

(* parseInt(token, 10): the digits before the decimal point *)
parseInt(tok) ==
    IF tok.kind = "num"
    THEN [nan |-> FALSE,
          v |-> IF tok.value >= 0 THEN tok.value \div Unit
                                  ELSE -((-tok.value) \div Unit)]
    ELSE NaN

LabelBox(id, classId, xCenter, yCenter, width, height, deleted, lineIndex) ==
    [id |-> id, classId |-> classId, xCenter |-> xCenter, yCenter |-> yCenter,
     width |-> width, height |-> height, deleted |-> deleted, selected |-> FALSE,
     lineIndex |-> lineIndex]

(* content.trim().split('\n'): blank lines at either end are gone *)
RECURSIVE TrimLines(_)
TrimLines(content) ==
    IF content = <<>> THEN <<>>
    ELSE IF Head(content) = <<>> THEN TrimLines(Tail(content))
    ELSE IF content[Len(content)] = <<>>
    THEN TrimLines(SubSeq(content, 1, Len(content) - 1))
    ELSE content

(* mutant of ValidValues: a width or height of zero is let through *)
ValidValues_ZeroSize(classId, xCenter, yCenter, width, height) ==
    /\ ~classId.nan /\ classId.v >= 0
    /\ ~xCenter.nan /\ xCenter.v >= 0 /\ xCenter.v <= Unit
    /\ ~yCenter.nan /\ yCenter.v >= 0 /\ yCenter.v <= Unit
    /\ ~width.nan /\ width.v >= 0 /\ width.v <= Unit
    /\ ~height.nan /\ height.v >= 0 /\ height.v <= Unit

(* parse's validation of the five values of a line *)
ValidValues(classId, xCenter, yCenter, width, height) ==
    /\ ~classId.nan /\ classId.v >= 0
    /\ ~xCenter.nan /\ xCenter.v >= 0 /\ xCenter.v <= Unit
    /\ ~yCenter.nan /\ yCenter.v >= 0 /\ yCenter.v <= Unit
    /\ ~width.nan /\ width.v > 0 /\ width.v <= Unit
    /\ ~height.nan /\ height.v > 0 /\ height.v <= Unit

(* the loop of parse from line i on, the next fresh id being id *)
RECURSIVE ParseFrom(_, _, _)
ParseFrom(lines, i, id) ==
    IF i > Len(lines) THEN <<>>
    ELSE LET parts == lines[i]
         IN  IF parts = <<>> \/ parts[1].kind = "hash" THEN ParseFrom(lines, i + 1, id)
             ELSE IF Len(parts) >= 5
                     /\ ValidValues(parseInt(parts[1]), parseFloat(parts[2]),
                                    parseFloat(parts[3]), parseFloat(parts[4]),
                                    parseFloat(parts[5]))
             THEN <<LabelBox(id, parseInt(parts[1]).v, parseFloat(parts[2]).v,
                             parseFloat(parts[3]).v, parseFloat(parts[4]).v,
                             parseFloat(parts[5]).v, FALSE, i - 1)>>
                  \o ParseFrom(lines, i + 1, id + 1)
             ELSE ParseFrom(lines, i + 1, id)

(* LabelParser.parse(content), crypto.randomUUID() handing out id, id+1, ... *)
parse(content, id) == ParseFrom(TrimLines(content), 1, id)

(* Number.prototype.toFixed(6): the numeral with six decimals nearest to v  *)
(* (v >= 0, and not half way between two of them)                           *)
toFixed6(v) == Num(((v + 5) \div 10) * 10)

(* LabelParser.serialize(boxes): one line per box that is not deleted *)
serialize(boxes) ==
    LET NotDeleted(b) == ~b.deleted
        live == SelectSeq(boxes, NotDeleted)
    IN  [i \in 1..Len(live) |->
            << Num(live[i].classId * Unit), toFixed6(live[i].xCenter),
               toFixed6(live[i].yCenter), toFixed6(live[i].width),
               toFixed6(live[i].height) >>]

(* The parser on its own: a label file of at most MaxTextLines lines is     *)
(* parsed, or at most MaxInputBoxes boxes are serialized; what one call     *)
(* returns may be handed to the other.  No more than MaxLabelIds ids are    *)
(* handed out.                                                              *)

MaxTextLines == 2
MaxInputBoxes == 2
MaxLabelIds == 6

(* a line parse accepts, and the tokens put in the place of one of its five *)
GoodLine == << Num(0), Num(5000000), Num(5000000), Num(2500000), Num(2500000) >>
TokenChoices == { Num(0), Num(Unit), Num(Unit + 1), Num(-1), Num(2 * Unit + 5000000),
                  Junk, Hash }

LineChoices ==
    { [GoodLine EXCEPT ![k] = tok] : k \in 1..5, tok \in TokenChoices }
        \cup { <<>>, SubSeq(GoodLine, 1, 4), Append(GoodLine, Junk) }

TextChoices == UNION { [1..n -> LineChoices] : n \in 0..MaxTextLines }

(* the boxes handed to serialize: fields within the ranges parse accepts *)
BoxChoices ==
    { LabelBox(0, classId, xCenter, Unit, width, Unit, deleted, 0) :
          classId \in {0, 3}, xCenter \in {0, 1234564}, width \in {4, 6, 2500004},
          deleted \in BOOLEAN }

BoxListChoices ==
    { [i \in 1..Len(list) |-> [list[i] EXCEPT !.id = i]] :
          list \in UNION { [1..n -> BoxChoices] : n \in 0..MaxInputBoxes } }

ParserFrame == UNCHANGED <<currentIndex, imageStates, globalModified, cycle, refVars, appVars>>

InitParser ==
    /\ currentIndex = -1
    /\ imageStates = EmptyMap
    /\ globalModified = {}
    /\ lastOp = "constructor"
    /\ lastRet = "void"
    /\ cycle = NoCycle
    /\ heap = <<>>
    /\ hst = [boxes |-> <<>>, originalBoxes |-> <<>>, undoStack |-> <<>>, redoStack |-> <<>>]
    /\ handed = [live |-> FALSE, items |-> <<>>]
    /\ created = 0
    /\ AppIdle
    /\ \/ labelText \in TextChoices /\ labelBoxes = <<>>
       \/ labelText = <<>> /\ labelBoxes \in BoxListChoices
    /\ nextLabelId = Len(labelBoxes) + 1

parseText ==
    /\ nextLabelId <= MaxLabelIds
    /\ labelBoxes' = parse(labelText, nextLabelId)
    /\ nextLabelId' = nextLabelId + Len(labelBoxes')
    /\ lastOp' = "parse"
    /\ lastRet' = "void"
    /\ UNCHANGED labelText
    /\ ParserFrame

serializeBoxes ==
    /\ labelText' = serialize(labelBoxes)
    /\ lastOp' = "serialize"
    /\ lastRet' = "void"
    /\ UNCHANGED <<labelBoxes, nextLabelId>>
    /\ ParserFrame

NextParser ==
    \/ parseText
    \/ serializeBoxes

SpecParser == InitParser /\ [][NextParser]_vars

----------------------------------------------------------------------------
(* Properties *)

Ids(boxes) == { boxes[i].id : i \in 1..Len(boxes) }

(* the ImageEditState of the current image after the step *)
CurStateNext == imageStates'[currentIndex]

(* C1: deleteSelected with k >= 1 selected live boxes pushes one 'delete'   *)
(* Action holding those k boxes as they were before the call (deleted =     *)
(* false, selected = true), marks exactly them deleted and unselected, puts *)
(* the current index in the modified set and returns k.                     *)
C1_DeleteSelected ==
    [][ (HasState(currentIndex) /\ getSelectedCount >= 1 /\ lastOp' = "deleteSelected") =>
        LET st == CurState
            sel == SelectSeq(st.boxes, IsSelectedLive)
            pushed == Top(CurStateNext.undoStack)
        IN  /\ Len(CurStateNext.undoStack) >= 1
            /\ \/ CurStateNext.undoStack = Append(st.undoStack, pushed)
               \/ /\ Len(st.undoStack) = maxStackSize
                  /\ CurStateNext.undoStack = Append(Tail(st.undoStack), pushed)
            /\ pushed.type = "delete"
            /\ pushed.boxes = sel
            /\ \A i \in 1..Len(sel) : ~pushed.boxes[i].deleted /\ pushed.boxes[i].selected
            /\ Len(CurStateNext.boxes) = Len(st.boxes)
            /\ \A i \in 1..Len(st.boxes) :
                  CurStateNext.boxes[i] =
                      IF IsSelectedLive(st.boxes[i])
                      THEN [st.boxes[i] EXCEPT !.deleted = TRUE, !.selected = FALSE]
                      ELSE st.boxes[i]
            /\ currentIndex \in globalModified'
            /\ lastRet' = Len(sel)
      ]_vars

(* C1 witness: deleteSelected has just deleted one of two boxes *)
C1_Witness ==
    /\ lastOp = "deleteSelected"
    /\ lastRet = 1
    /\ HasState(currentIndex)
    /\ Len(CurState.boxes) = 2
    /\ getDeletedCount = 1
    /\ Top(CurState.undoStack).type = "delete"

(* The effect of a successful undo on the current image: the top Action is  *)
(* moved to the redo stack and its inverse applied to the boxes whose id it *)
(* names, every other box and field kept.  restoreClearsSelected says       *)
(* whether undoing a 'restore' also clears selected.                        *)
UndoEffect(restoreClearsSelected) ==
    (lastOp' = "undo" /\ lastRet' = TRUE) =>
        LET st == CurState
            action == Top(st.undoStack)
        IN  /\ CurStateNext.undoStack = Pop(st.undoStack)
            /\ CurStateNext.redoStack = Append(st.redoStack, action)
            /\ CurStateNext.originalBoxes = st.originalBoxes
            /\ Len(CurStateNext.boxes) = Len(st.boxes)
            /\ \A i \in 1..Len(st.boxes) :
                  CurStateNext.boxes[i] =
                      IF st.boxes[i].id \notin Ids(action.boxes) THEN st.boxes[i]
                      ELSE IF action.type = "delete"
                           THEN [st.boxes[i] EXCEPT !.deleted = FALSE, !.selected = FALSE]
                      ELSE IF action.type # "restore" THEN st.boxes[i]
                      ELSE IF restoreClearsSelected
                           THEN [st.boxes[i] EXCEPT !.deleted = TRUE, !.selected = FALSE]
                      ELSE [st.boxes[i] EXCEPT !.deleted = TRUE]

(* C2 as stated: a successful undo of a 'restore' Action sets deleted = true *)
(* on the Action's boxes and changes no other field of any box.             *)
C2_UndoAsStated == [][UndoEffect(FALSE)]_vars

(* C2 amended: a successful undo pops the most recent Action, pushes it on  *)
(* the redo stack and changes only the boxes the Action names: a 'delete'   *)
(* sets deleted = false and selected = false, a 'restore' sets deleted =    *)
(* true and selected = false.                                               *)
C2_Undo == [][UndoEffect(TRUE)]_vars

(* C2 witness: the more recent of two Actions, a 'restore', was just undone *)
C2_Witness ==
    /\ lastOp = "undo"
    /\ lastRet = TRUE
    /\ Len(CurState.undoStack) >= 1
    /\ Top(CurState.redoStack).type = "restore"
    /\ getDeletedCount >= 1

(* C3: wherever undo would succeed, undo followed by redo leaves the deleted *)
(* flag of every working box, the undo stack and the redo stack as they     *)
(* were.                                                                    *)
C3_RedoInvertsUndo ==
    (HasState(currentIndex) /\ Len(CurState.undoStack) > 0) =>
        LET st == CurState
            back == RedoState(UndoState(st))
        IN  /\ Len(back.boxes) = Len(st.boxes)
            /\ \A i \in 1..Len(st.boxes) : back.boxes[i].deleted = st.boxes[i].deleted
            /\ back.undoStack = st.undoStack
            /\ back.redoStack = st.redoStack

(* C4: in the cycle initImageState (n live boxes), deleteSelected (k >= 1   *)
(* selected), undo, redo: the live count is n - k after the delete, n after *)
(* the undo with none of the restored boxes selected, n - k after the redo. *)
C4_DeleteUndoRedoCounts ==
    /\ cycle.phase = "deleted" => cycle.k >= 1 /\ getBoxCount = cycle.n - cycle.k
    /\ cycle.phase = "undone" =>
          /\ getBoxCount = cycle.n
          /\ lastOp = "undo" =>
                \A i \in 1..Len(CurState.boxes) :
                    CurState.boxes[i].id \in Ids(Top(CurState.redoStack).boxes)
                        => ~CurState.boxes[i].selected
    /\ cycle.phase = "redone" => getBoxCount = cycle.n - cycle.k

(* C4 witness: the cycle has run to its end, deleting one of two boxes *)
C4_Witness ==
    /\ cycle.phase = "redone"
    /\ cycle.n = 2
    /\ cycle.k = 1
    /\ lastOp = "redo"

(* C5: undo on an empty undo stack and redo on an empty redo stack return   *)
(* false and change neither the images' states, nor the modified set, nor   *)
(* the current index.                                                       *)
C5_EmptyStackNoOp ==
    [][ ((lastOp' = "undo" /\ ~canUndo) \/ (lastOp' = "redo" /\ ~canRedo)) =>
            (lastRet' = FALSE /\ UNCHANGED smVars) ]_vars

(* C5 witness: undo was just refused on an image that has boxes *)
C5_Witness ==
    /\ lastOp = "undo"
    /\ lastRet = FALSE
    /\ HasState(currentIndex)
    /\ Len(CurState.boxes) > 0

(* C6: in the cycle that starts with initImageState on a fresh session, the *)
(* image is outside the modified set after the initialisation, inside it    *)
(* after the deleteSelected that deleted a box, and outside it again after  *)
(* the undo that reverses that delete.                                      *)
C6_ModifiedAlongCycle ==
    /\ cycle.phase = "init" => cycle.index \notin globalModified
    /\ cycle.phase = "deleted" => cycle.index \in globalModified
    /\ cycle.phase = "undone" => cycle.index \notin globalModified

(* C6 witness: the delete of the cycle has just been undone *)
C6_Witness ==
    /\ cycle.phase = "undone"
    /\ lastOp = "undo"
    /\ cycle.k >= 1
    /\ currentIndex = cycle.index
    /\ Len(CurState.redoStack) = 1

(* the modification rule, stated on sets of boxes: some working box has no  *)
(* original of its id, or one whose deleted flag differs                    *)
DiffersFromOriginal(st) ==
    \E i \in 1..Len(st.boxes) :
        \/ st.boxes[i].id \notin Ids(st.originalBoxes)
        \/ \E j \in 1..Len(st.originalBoxes) :
              /\ st.originalBoxes[j].id = st.boxes[i].id
              /\ st.originalBoxes[j].deleted # st.boxes[i].deleted

(* C7: right after a successful undo or redo the current image is in the    *)
(* modified set exactly if some working box differs from the original       *)
(* snapshot by the modification rule.                                       *)
C7_ModifiedIffDiffers ==
    (lastOp \in {"undo", "redo"} /\ lastRet = TRUE) =>
        (currentIndex \in globalModified <=> DiffersFromOriginal(CurState))

(* C7 witness: an undo that left the image different from its snapshot *)
C7_Witness ==
    /\ lastOp = "undo"
    /\ lastRet = TRUE
    /\ currentIndex \in globalModified
    /\ DiffersFromOriginal(CurState)
    /\ Len(CurState.redoStack) >= 1

(* C8: a deleteSelected or restoreDeleted that affected a box leaves the    *)
(* current image in the modified set, also when no working box differs from *)
(* the original snapshot.                                                   *)
C8_EditAlwaysMarksModified ==
    (lastOp \in {"deleteSelected", "restoreDeleted"} /\ lastRet > 0) =>
        currentIndex \in globalModified

(* C8 witness: restoreDeleted has brought back what deleteSelected deleted; *)
(* nothing differs from the snapshot and the image is in the modified set   *)
C8_Witness ==
    /\ lastOp = "restoreDeleted"
    /\ lastRet > 0
    /\ Len(CurState.undoStack) = 2
    /\ CurState.undoStack[1].type = "delete"
    /\ ~DiffersFromOriginal(CurState)
    /\ currentIndex \in globalModified

IdsInOrder(boxes) == [i \in 1..Len(boxes) |-> boxes[i].id]

(* C9: markSaved on an image with state leaves, in the working collection   *)
(* and in originalBoxes, exactly the boxes that were not deleted (same ids, *)
(* same order), none of them deleted, both stacks empty, so that undo and   *)
(* redo would return false, and the current index outside the modified set. *)
C9_MarkSaved ==
    [][ (lastOp' = "markSaved" /\ HasState(currentIndex)) =>
        LET live == SelectSeq(CurState.boxes, IsLive)
        IN  /\ IdsInOrder(CurStateNext.boxes) = IdsInOrder(live)
            /\ IdsInOrder(CurStateNext.originalBoxes) = IdsInOrder(live)
            /\ \A i \in 1..Len(CurStateNext.boxes) : ~CurStateNext.boxes[i].deleted
            /\ \A i \in 1..Len(CurStateNext.originalBoxes) :
                  ~CurStateNext.originalBoxes[i].deleted
            /\ CurStateNext.undoStack = <<>>
            /\ CurStateNext.redoStack = <<>>
            /\ ~canUndo' /\ ~canRedo'
            /\ currentIndex \notin globalModified'
      ]_vars

(* C9 witness: markSaved has dropped the tombstone of box 1 and kept box 2 *)
C9_Witness ==
    /\ lastOp = "markSaved"
    /\ HasState(currentIndex)
    /\ IdsInOrder(CurState.boxes) = <<2>>
    /\ IdsInOrder(CurState.originalBoxes) = <<2>>

(* C10: the undo stack and the redo stack of every image hold at most       *)
(* maxStackSize (50) Actions.                                               *)
C10_StacksBounded ==
    \A i \in DOMAIN imageStates :
        /\ Len(imageStates[i].undoStack) <= maxStackSize
        /\ Len(imageStates[i].redoStack) <= maxStackSize

(* C10 witness: the undo stack is full and its oldest entry is a 'restore': *)
(* the first Action ever recorded, a 'delete', has been dropped             *)
C10_Witness ==
    /\ Len(CurState.undoStack) = maxStackSize
    /\ CurState.undoStack[1].type = "restore"

(* a deleteSelected or restoreDeleted step that recorded an Action *)
Recorded == lastOp' \in {"deleteSelected", "restoreDeleted"} /\ lastRet' > 0

(* C11: an Action recorded on a full undo stack evicts exactly the oldest    *)
(* entry: the stack afterwards is the old one without its first entry,      *)
(* followed by the new Action; on a stack that is not full nothing is       *)
(* evicted.  So the stack always holds the most recent entries, at most 50, *)
(* in recording order.                                                      *)
C11_OldestDiscarded ==
    [][ Recorded =>
        LET old == CurState.undoStack
            new == CurStateNext.undoStack
        IN  /\ Top(new).type = IF lastOp' = "deleteSelected" THEN "delete" ELSE "restore"
            /\ IF Len(old) < maxStackSize
               THEN new = Append(old, Top(new))
               ELSE /\ Len(new) = maxStackSize
                    /\ new = Append(Tail(old), Top(new))
      ]_vars

(* C11 witness: a 'delete' was just recorded on a full stack whose oldest   *)
(* entry is now a 'restore', so more than 50 Actions have been recorded     *)
C11_Witness ==
    /\ lastOp = "deleteSelected"
    /\ lastRet = 1
    /\ Len(CurState.undoStack) = maxStackSize
    /\ CurState.undoStack[1].type = "restore"
    /\ Top(CurState.undoStack).type = "delete"

(* C12: a deleteSelected or restoreDeleted that records an Action leaves    *)
(* the current image's redo stack empty, and a redo called right after it   *)
(* returns false; so does a recordAction called on an image with state.     *)
C12_RecordClearsRedo ==
    [][ /\ Recorded => (CurStateNext.redoStack = <<>> /\ ~canRedo')
        /\ (lastOp' = "recordAction" /\ HasState(currentIndex)) =>
               (CurStateNext.redoStack = <<>> /\ ~canRedo')
        /\ (lastOp = "recordAction" /\ lastOp' = "redo") => lastRet' = FALSE
        /\ (lastOp \in {"deleteSelected", "restoreDeleted"} /\ lastRet > 0
               /\ lastOp' = "redo") => lastRet' = FALSE
      ]_vars

(* C12 witness: after delete and undo (redo stack not empty) another delete *)
(* was recorded, and the redo that followed was refused                     *)
C12_Witness ==
    /\ cycle.phase = "redoRefused"
    /\ lastOp = "redo"
    /\ lastRet = FALSE
    /\ Len(CurState.undoStack) >= 1

(* C13: deleteSelected with no selected live box, and restoreDeleted with   *)
(* no deleted box (onlySelected: no deleted and selected box), return 0 and *)
(* change neither the boxes, nor the stacks, nor the modified set.          *)
C13_NothingToDo ==
    [][ /\ (lastOp' = "deleteSelected" /\ getSelectedCount = 0) =>
               (lastRet' = 0 /\ UNCHANGED smVars)
        /\ \A onlySelected \in BOOLEAN :
               (/\ restoreDeleted(onlySelected)
                /\ HasState(currentIndex)
                /\ Len(ToRestore(CurState.boxes, onlySelected)) = 0) =>
                   (lastRet' = 0 /\ UNCHANGED smVars)
        /\ (lastOp' = "restoreDeleted" /\ ~HasState(currentIndex)) =>
               (lastRet' = 0 /\ UNCHANGED smVars)
      ]_vars

(* C13 witness: deleteSelected returned 0 on an image that has boxes, a     *)
(* non-empty redo stack and is in the modified set                          *)
C13_Witness ==
    /\ lastOp = "deleteSelected"
    /\ lastRet = 0
    /\ HasState(currentIndex)
    /\ Len(CurState.boxes) > 0
    /\ Len(CurState.redoStack) >= 1
    /\ currentIndex \in globalModified

(* C14: restoreDeleted(onlySelected) with d >= 1 matching boxes (deleted;   *)
(* for onlySelected = true deleted and selected) pushes one 'restore'       *)
(* Action holding those d boxes as they were before the call, sets deleted  *)
(* = false and selected = false on exactly them, puts the current index in  *)
(* the modified set and returns d.                                          *)
C14_RestoreDeleted ==
    [][ \A onlySelected \in BOOLEAN :
          LET st == CurState
              Matches(b) == b.deleted /\ (onlySelected => b.selected)
              matching == SelectSeq(st.boxes, Matches)
              pushed == Top(CurStateNext.undoStack)
          IN  (restoreDeleted(onlySelected) /\ HasState(currentIndex) /\ Len(matching) >= 1) =>
                /\ Len(CurStateNext.undoStack) >= 1
                /\ \/ CurStateNext.undoStack = Append(st.undoStack, pushed)
                   \/ /\ Len(st.undoStack) = maxStackSize
                      /\ CurStateNext.undoStack = Append(Tail(st.undoStack), pushed)
                /\ pushed.type = "restore"
                /\ pushed.boxes = matching
                /\ \A i \in 1..Len(matching) : pushed.boxes[i].deleted
                /\ Len(CurStateNext.boxes) = Len(st.boxes)
                /\ \A i \in 1..Len(st.boxes) :
                      CurStateNext.boxes[i] =
                          IF Matches(st.boxes[i])
                          THEN [st.boxes[i] EXCEPT !.deleted = FALSE, !.selected = FALSE]
                          ELSE st.boxes[i]
                /\ currentIndex \in globalModified'
                /\ lastRet' = Len(matching)
      ]_vars

(* C14 witness: restoreDeleted(true) has restored the one box that was      *)
(* deleted and selected and left the other deleted box alone                *)
C14_Witness ==
    /\ lastOp = "restoreDeleted"
    /\ lastRet = 1
    /\ Top(CurState.undoStack).type = "restore"
    /\ Top(CurState.undoStack).boxes[1].selected
    /\ getDeletedCount = 1
    /\ getBoxCount = 1

(* C15: initImageState(index, boxes) leaves the state of every image that   *)
(* already has one, the image at index included, and the modified set as    *)
(* they were; an index without state gets the boxes, with empty stacks; the *)
(* current index is index afterwards.                                       *)
C15_InitImageState ==
    [][ \A index \in ImagePair, boxes \in PairBoxLists :
          (lastOp' = "initImageState" /\ initImageState(index, boxes)) =>
            /\ currentIndex' = index
            /\ globalModified' = globalModified
            /\ DOMAIN imageStates' = DOMAIN imageStates \cup {index}
            /\ \A i \in DOMAIN imageStates : imageStates'[i] = imageStates[i]
            /\ index \notin DOMAIN imageStates =>
                  /\ imageStates'[index].boxes = boxes
                  /\ imageStates'[index].originalBoxes = boxes
                  /\ imageStates'[index].undoStack = <<>>
                  /\ imageStates'[index].redoStack = <<>>
      ]_vars

(* C15 witness: initImageState has just made current an image that has an   *)
(* undo history and is modified, while the other image has state as well    *)
C15_Witness ==
    /\ lastOp = "initImageState"
    /\ DOMAIN imageStates = ImagePair
    /\ currentIndex = 1
    /\ Len(imageStates[1].undoStack) >= 1
    /\ 1 \in globalModified
    /\ Len(imageStates[0].boxes) >= 1

(* C16: the arrays getCurrentBoxes and getBoxesForSave hand out are copies: *)
(* the array is not the session's own and holds none of the working box     *)
(* objects, and when the caller writes a flag of a returned box, as         *)
(* finalizeSelectionRect does with selected, the boxes of the session's     *)
(* working collection keep their values.                                    *)
C16_ReadsAreCopies ==
    [][ /\ lastOp' \in {"getCurrentBoxes", "getBoxesForSave"} =>
              /\ ~handed'.live
              /\ RefAddrs(handed'.items) \cap RefAddrs(hst'.boxes) = {}
        /\ lastOp' = "finalizeSelectionRect" =>
              Deref(heap', hst'.boxes) = Deref(heap, hst.boxes)
      ]_vars

(* the Actions of a stack with their boxes by value *)
RefStackValues(h, stack) ==
    [i \in 1..Len(stack) |->
        [type |-> stack[i].type, boxes |-> Deref(h, stack[i].boxes)]]

Reverse(seq) == [i \in 1..Len(seq) |-> seq[Len(seq) + 1 - i]]

(* the working array, originalBoxes and the boxes arrays of the Actions on  *)
(* both stacks: no object is in two of them, nor twice in one               *)
RefSharesNothing ==
    LET all == hst.boxes \o hst.originalBoxes \o RefStackAddrs(hst.undoStack)
                   \o RefStackAddrs(hst.redoStack)
    IN  \A i, j \in 1..Len(all) : i # j => all[i] # all[j]

(* C17: the working collection, originalBoxes and the snapshots of the      *)
(* Actions share no box object, and a step of deleteSelected,               *)
(* restoreDeleted, undo, redo or a selection operation leaves the boxes of  *)
(* originalBoxes and of every Action that stays on a stack as they were;    *)
(* the Action a step records holds the affected boxes as they were before   *)
(* the step, ids included.                                                  *)
C17_SnapshotsIndependent ==
    []RefSharesNothing /\
    [][ lastOp' \in {"deleteSelected", "restoreDeleted", "undo", "redo", "selectAll",
                     "clearSelection", "toggleBoxSelection", "selectBox",
                     "finalizeSelectionRect"} =>
              LET oldU == RefStackValues(heap, hst.undoStack)
                  oldR == RefStackValues(heap, hst.redoStack)
                  newU == RefStackValues(heap', hst'.undoStack)
                  newR == RefStackValues(heap', hst'.redoStack)
              IN  /\ Deref(heap', hst'.originalBoxes) = Deref(heap, hst.originalBoxes)
                  /\ IF Recorded
                     THEN /\ Pop(newU) = IF Len(oldU) < maxStackSize THEN oldU ELSE Tail(oldU)
                          /\ newR = <<>>
                          /\ IF lastOp' = "deleteSelected"
                             THEN Top(newU).boxes =
                                     SelectSeq(Deref(heap, hst.boxes), IsSelectedLive)
                             ELSE Top(newU).boxes \in
                                     { SelectSeq(Deref(heap, hst.boxes), IsDeleted),
                                       SelectSeq(Deref(heap, hst.boxes), IsDeletedSelected) }
                     ELSE newU \o Reverse(newR) = oldU \o Reverse(oldR)
      ]_vars

(* C17 witness: a delete of two boxes was undone; its Action, now on the    *)
(* redo stack, still holds both boxes selected and not deleted, the         *)
(* originals hold them unselected, and the working boxes of those ids are   *)
(* unselected                                                               *)
C17_Witness ==
    /\ lastOp = "undo"
    /\ lastRet = TRUE
    /\ Len(hst.redoStack) = 1
    /\ Top(hst.redoStack).type = "delete"
    /\ Len(Top(hst.redoStack).boxes) = 2
    /\ \A k \in 1..2 :
          /\ heap[Top(hst.redoStack).boxes[k]].selected
          /\ ~heap[Top(hst.redoStack).boxes[k]].deleted
          /\ \E i \in 1..Len(hst.boxes) :
                /\ heap[hst.boxes[i]].id = heap[Top(hst.redoStack).boxes[k]].id
                /\ ~heap[hst.boxes[i]].selected
                /\ ~heap[hst.originalBoxes[i]].selected

(* C18: in the application every box of every image's originalBoxes has     *)
(* deleted = false.                                                         *)
C18_OriginalsNotDeleted ==
    \A i \in DOMAIN imageStates :
        \A k \in 1..Len(imageStates[i].originalBoxes) :
            ~imageStates[i].originalBoxes[k].deleted

(* C19: deleted boxes stay in the working collection: the live count plus   *)
(* the deleted count is the collection's size, getBoxesForSave is the boxes *)
(* that are not deleted, in their order, and the ids of an image's working  *)
(* collection change only in a step of markSaved (markSavedAt),             *)
(* setCurrentBoxes or resetCurrent.                                         *)
C19_Tombstones ==
    /\ [] ( HasState(currentIndex) =>
              LET saved == getBoxesForSave
              IN  /\ getBoxCount + getDeletedCount = Len(getCurrentBoxes)
                  /\ Len(saved) = Cardinality({ i \in 1..Len(getCurrentBoxes) :
                                                   ~getCurrentBoxes[i].deleted })
                  /\ \A i \in 1..Len(saved) :
                        /\ ~saved[i].deleted
                        /\ saved[i] = getCurrentBoxes[FindById(getCurrentBoxes, saved[i].id)]
                  /\ \A i, j \in 1..Len(saved) :
                        i < j => FindById(getCurrentBoxes, saved[i].id)
                                    < FindById(getCurrentBoxes, saved[j].id) )
    /\ [][ \A i \in DOMAIN imageStates \cap DOMAIN imageStates' :
              ( /\ imageStates'[i].boxes # imageStates[i].boxes
                /\ IdsInOrder(imageStates'[i].boxes) # IdsInOrder(imageStates[i].boxes) )
                  => lastOp' \in {"markSaved", "markSavedAt", "setCurrentBoxes", "resetCurrent"}
      ]_vars

(* C19 witness: both boxes are tombstones after a redo, nothing is left to  *)
(* save                                                                     *)
C19_Witness ==
    /\ lastOp = "redo"
    /\ lastRet = TRUE
    /\ Len(getCurrentBoxes) = 2
    /\ getDeletedCount = 2
    /\ getBoxesForSave = <<>>

(* toggleBoxSelection / selectBox cannot select boxId: no state, no box of  *)
(* that id, or the box is deleted                                           *)
NotSelectable(boxId) ==
    \/ ~HasState(currentIndex)
    \/ FindById(getCurrentBoxes, boxId) = 0
    \/ getCurrentBoxes[FindById(getCurrentBoxes, boxId)].deleted

(* C20: toggleBoxSelection(id) and selectBox(id) with an id that is not the *)
(* id of a box of the current image, or is the id of a deleted box, leave   *)
(* every box's selected flag and the rest of the session as they were.      *)
C20_UnknownIdNoOp ==
    [][ \A boxId \in BoxIds :
          ((toggleBoxSelection(boxId) \/ selectBox(boxId)) /\ NotSelectable(boxId)) =>
              UNCHANGED smVars
      ]_vars

(* the session operations that edit the current image *)
MutatingOps ==
    {"deleteSelected", "restoreDeleted", "undo", "redo", "selectAll", "clearSelection",
     "toggleBoxSelection", "selectBox", "markSaved", "setCurrentBoxes"}

(* C21: a step of deleteSelected, restoreDeleted, undo, redo, a selection   *)
(* operation, markSaved or setCurrentBoxes leaves the current index and,    *)
(* for every image other than the current one, its ImageEditState (boxes,   *)
(* originalBoxes, both stacks) and its membership of the modified set as    *)
(* they were; a step of setCurrentIndex leaves every ImageEditState and the *)
(* modified set as they were.                                               *)
C21_OnlyCurrentImage ==
    [][ /\ lastOp' \in MutatingOps =>
              /\ currentIndex' = currentIndex
              /\ \A i \in ImagePair \ {currentIndex} :
                    /\ HasState(i)' <=> HasState(i)
                    /\ HasState(i) => imageStates'[i] = imageStates[i]
                    /\ i \in globalModified' <=> i \in globalModified
        /\ lastOp' = "setCurrentIndex" =>
              /\ imageStates' = imageStates
              /\ globalModified' = globalModified
      ]_vars

(* C21 witness: image 0 was marked saved while image 1, edited before, is   *)
(* still modified and still has its recorded Action                         *)
C21_Witness ==
    /\ lastOp = "markSaved"
    /\ currentIndex = 0
    /\ HasState(0) /\ HasState(1)
    /\ 1 \in globalModified
    /\ Len(imageStates[1].undoStack) = 1

(* C22: a step of markSavedAt(index) leaves the current index as it was and *)
(* changes no image other than index; the image at index, if it has state,  *)
(* ends as markSaved leaves the current image: boxes and originalBoxes are  *)
(* the boxes that were not deleted, in their order, unselected state kept,  *)
(* both stacks are empty and index is outside the modified set; with no     *)
(* state at index nothing changes.                                          *)
C22_MarkSavedAt ==
    [][ \A index \in ImagePair :
          (lastOp' = "markSavedAt" /\ markSavedAt(index)) =>
              /\ currentIndex' = currentIndex
              /\ DOMAIN imageStates' = DOMAIN imageStates
              /\ \A i \in DOMAIN imageStates \ {index} : imageStates'[i] = imageStates[i]
              /\ \A i \in ImagePair \ {index} : i \in globalModified' <=> i \in globalModified
              /\ IF HasState(index)
                 THEN LET kept == SelectSeq(imageStates[index].boxes, IsLive)
                      IN  /\ imageStates'[index].boxes = kept
                          /\ imageStates'[index].originalBoxes = kept
                          /\ imageStates'[index].undoStack = <<>>
                          /\ imageStates'[index].redoStack = <<>>
                          /\ index \notin globalModified'
                 ELSE globalModified' = globalModified
      ]_vars

(* C22 witness: markSavedAt(1) was called while image 0 is current; image 1 *)
(* lost its deleted box and its history, image 0 keeps its own              *)
C22_Witness ==
    /\ lastOp = "markSavedAt"
    /\ currentIndex = 0
    /\ HasState(0) /\ HasState(1)
    /\ 0 \in globalModified
    /\ Len(imageStates[0].undoStack) = 1
    /\ 1 \notin globalModified
    /\ imageStates[1].boxes = <<>>
    /\ imageStates[1].undoStack = <<>>

(* C23: while the current index has no ImageEditState, the reads return     *)
(* their neutral values (empty collections, 0, false), and a step of undo,  *)
(* redo, deleteSelected, restoreDeleted, a selection operation,             *)
(* setCurrentBoxes or markSaved returns false or 0 where it returns         *)
(* anything and leaves the image states, the modified set and the current   *)
(* index as they were.                                                      *)
C23_NoStateNeutral ==
    /\ [] ( ~HasState(currentIndex) =>
              /\ getCurrentBoxes = <<>>
              /\ getBoxesForSave = <<>>
              /\ getSelectedCount = 0
              /\ getBoxCount = 0
              /\ getDeletedCount = 0
              /\ canUndo = FALSE
              /\ canRedo = FALSE )
    /\ [][ (~HasState(currentIndex) /\ lastOp' \in MutatingOps \cup {"finalizeSelectionRect"}) =>
              /\ imageStates' = imageStates
              /\ globalModified' = globalModified
              /\ currentIndex' = currentIndex
              /\ lastOp' \in {"undo", "redo"} => lastRet' = FALSE
              /\ lastOp' \in {"deleteSelected", "restoreDeleted"} => lastRet' = 0
      ]_vars

(* C23 witness: the current index 0 has no state and a deleteSelected on   *)
(* it returned 0                                                            *)
C23_Witness ==
    /\ lastOp = "deleteSelected"
    /\ lastRet = 0
    /\ currentIndex = 0
    /\ ~HasState(0)
    /\ globalModified = {}

(* C28: a cache built with capacity C >= 1 never holds more than C entries, *)
(* never holds a key twice, and no step of get, set, has, delete or clear   *)
(* changes its capacity.                                                    *)
C28_CacheBounded ==
    /\ [] ( /\ cacheMaxSize >= 1
            /\ Len(imageCache) <= cacheMaxSize
            /\ Cardinality(LruKeys(imageCache)) = Len(imageCache) )
    /\ [][ cacheMaxSize' = cacheMaxSize ]_vars

(* C28 witness: a set on a full cache of capacity 2 evicted an entry and    *)
(* the cache is full again                                                  *)
C28_Witness ==
    /\ lastOp = "set"
    /\ cacheMaxSize = 2
    /\ Len(imageCache) = 2
    /\ Len(closeLog) = 1
    /\ nextBitmap = 4

(* C29: a set of a key the full cache does not hold removes exactly one     *)
(* key, the one whose last get or set is the oldest among the keys held,    *)
(* and the new key is the latest used; a get that finds its key makes it    *)
(* the latest used and removes nothing; has changes nothing.                *)
C29_EvictsLeastRecent ==
    [][ /\ \A key \in CacheKeys :
              (lruSet(key) /\ ~LruHas(imageCache, key) /\ Len(imageCache) >= cacheMaxSize) =>
                  LET gone == LruKeys(imageCache) \ LruKeys(imageCache')
                  IN  /\ Cardinality(gone) = 1
                      /\ \A g \in gone : \A k \in LruKeys(imageCache) \ {g} :
                              lastUsed[g] < lastUsed[k]
                      /\ LruKeys(imageCache') = (LruKeys(imageCache) \ gone) \cup {key}
        /\ (lastOp' = "get" /\ lastRet' # 0) =>
              /\ LruKeys(imageCache') = LruKeys(imageCache)
              /\ \A k \in LruKeys(imageCache') :
                    lastUsed'[k] <= lastUsed'[Top(imageCache').key]
        /\ lastOp' = "has" => (imageCache' = imageCache /\ lastUsed' = lastUsed)
      ]_vars

(* C29 witness: set(1), set(2), get(1), set(3) on a cache of capacity 2:    *)
(* key 2 was evicted although key 1 was set before it                       *)
C29_Witness ==
    /\ lastOp = "set"
    /\ cacheMaxSize = 2
    /\ imageCache = << [key |-> 1, value |-> 1], [key |-> 3, value |-> 3] >>
    /\ closeLog = << 2 >>
    /\ lastUsed[1] = 3
    /\ clock = 4

(* C30: close() is called at most once on a value and never on a value the *)
(* cache holds; the values a step removes by eviction (a set of a new key), *)
(* by delete or by clear are the values close() is called on in that step,  *)
(* once each; clear leaves the cache empty; get, has and a set of a key     *)
(* already held call no close().                                            *)
C30_CloseOnceAtRemoval ==
    /\ [] ( /\ Cardinality(Range(closeLog)) = Len(closeLog)
            /\ Range(closeLog) \cap LruValues(imageCache) = {} )
    /\ [][ LET added == SubSeq(closeLog', Len(closeLog) + 1, Len(closeLog'))
               removed == LruValues(imageCache) \ LruValues(imageCache')
           IN  /\ SubSeq(closeLog', 1, Len(closeLog)) = closeLog
               /\ \A key \in CacheKeys :
                     lruSet(key) =>
                         IF LruHas(imageCache, key)
                         THEN added = <<>>
                         ELSE Range(added) = removed /\ Len(added) = Cardinality(removed)
               /\ lastOp' \in {"delete", "clear"} =>
                     Range(added) = removed /\ Len(added) = Cardinality(removed)
               /\ lastOp' = "clear" =>
                     imageCache' = <<>> /\ Range(added) = LruValues(imageCache)
               /\ lastOp' \in {"get", "has"} => added = <<>>
      ]_vars

(* C30 witness: value 1 was closed when it was evicted, values 2 and 3 when *)
(* the cache was cleared                                                    *)
C30_Witness ==
    /\ lastOp = "clear"
    /\ cacheMaxSize = 2
    /\ imageCache = <<>>
    /\ closeLog = << 1, 2, 3 >>

(* C27: in the step that completes loadFromDrop or loadFromFolderPicker     *)
(* (the dataset of the new folder becomes the open one) StateManager holds  *)
(* no ImageEditState and no modified index: whatever it held was created    *)
(* from the dataset open before.                                            *)
C27_StateDiesWithDataset ==
    [][ \A call \in pending :
          (loadFromDropResume(call) \/ loadDatasetResume(call)) =>
              /\ imageStates' = EmptyMap
              /\ globalModified' = {} ]_vars

(* C24: in the step in which doSaveAll finishes (after its last save, after *)
(* a save that returned false, or when the awaited download threw) the      *)
(* session's current index is main.js currentIndex.                         *)
C24_SaveAllRestoresIndex ==
    [][ (SavingAll /\ (\A c \in pending : c.op = "doSaveAll") /\ ~SavingAll') =>
            currentIndex' = uiIndex' ]_vars

(* C25: a delete, undo or redo handler that runs while doSaveAll is         *)
(* suspended (and nothing else is) changes no ImageEditState other than the *)
(* one of the image shown (main.js currentIndex).                           *)
C25_EditsShownImage ==
    [][ (SavingAll /\ (\A c \in pending : c.op = "doSaveAll") /\ pending' = pending
            /\ lastOp' \in {"deleteSelected", "undo", "redo"}) =>
            \A i \in DOMAIN imageStates \ {uiIndex} : imageStates'[i] = imageStates[i]
      ]_vars

(* C26: the bitmap selectImage made current has not been closed by the      *)
(* image cache.                                                             *)
C26_CurrentBitmapOpen ==
    currentBitmap > 0 => currentBitmap \notin Range(closeLog)

(* C31: a set of a key the cache holds, full or not, leaves the set of keys *)
(* and the size as they were, leaves the other entries in their order, and  *)
(* puts the key last (most recently used) with the new value.               *)
C31_SetExistingKey ==
    [][ \A key \in CacheKeys :
          (lruSet(key) /\ LruHas(imageCache, key)) =>
              /\ LruKeys(imageCache') = LruKeys(imageCache)
              /\ Len(imageCache') = Len(imageCache)
              /\ LruWithout(imageCache', key) = LruWithout(imageCache, key)
              /\ imageCache'[Len(imageCache')] = [key |-> key, value |-> nextBitmap]
      ]_vars

(* C31 witness: set(1), set(2), set(1) on a cache of capacity 2: the full   *)
(* cache still holds keys 2 and 1, key 1 last with its new value            *)
C31_Witness ==
    /\ lastOp = "set"
    /\ cacheMaxSize = 2
    /\ imageCache = << [key |-> 2, value |-> 2], [key |-> 1, value |-> 3] >>
    /\ closeLog = <<>>

(* C40: a set of a key that holds another value removes that value from the *)
(* cache and calls close() on nothing, the replaced value included.         *)
C40_ReplacementReleasesNothing ==
    [][ \A key \in CacheKeys :
          (lruSet(key) /\ LruHas(imageCache, key)
                /\ LruValue(imageCache, key) # nextBitmap) =>
              /\ LruValue(imageCache, key) \notin LruValues(imageCache')
              /\ closeLog' = closeLog
              /\ LruValue(imageCache, key) \notin Range(closeLog')
      ]_vars

(* C40 witness: set(1), set(1): value 1 is neither held nor closed *)
C40_Witness ==
    /\ lastOp = "set"
    /\ imageCache = << [key |-> 1, value |-> 2] >>
    /\ closeLog = <<>>
    /\ nextBitmap = 3

(* the multiple of 10^-6 nearest to a coordinate *)
Round6(v) == ((v + 5) \div 10) * 10

(* C32: parsing what serialize wrote gives one box per box that was not     *)
(* deleted, in the same order, with the same classId and with coordinates   *)
(* equal to the written ones after rounding to six decimals.                *)
C32_RoundTrip ==
    [][ (lastOp = "serialize" /\ lastOp' = "parse") =>
            LET NotDeleted(b) == ~b.deleted
                live == SelectSeq(labelBoxes, NotDeleted)
                got == labelBoxes'
            IN  /\ Len(got) = Len(live)
                /\ \A i \in 1..Len(got) :
                      /\ got[i].classId = live[i].classId
                      /\ Round6(got[i].xCenter) = Round6(live[i].xCenter)
                      /\ Round6(got[i].yCenter) = Round6(live[i].yCenter)
                      /\ Round6(got[i].width) = Round6(live[i].width)
                      /\ Round6(got[i].height) = Round6(live[i].height)
      ]_vars

(* the lines the claim says yield a box: not blank, not a comment, at least *)
(* five tokens, the first five read as numbers with classId >= 0,           *)
(* 0 <= xCenter, yCenter <= 1 and 0 < width, height <= 1                    *)
YieldsBox(line) ==
    /\ Len(line) >= 5
    /\ line[1].kind # "hash"
    /\ \A k \in 1..5 : line[k].kind = "num"
    /\ line[1].value > -Unit
    /\ \A k \in {2, 3} : line[k].value >= 0 /\ line[k].value <= Unit
    /\ \A k \in {4, 5} : line[k].value > 0 /\ line[k].value <= Unit

(* C33: after parse the boxes are, in line order, one per line that yields  *)
(* a box, with that line's five values (classId the integer part of the     *)
(* first), deleted = false and selected = false, and with distinct ids; the *)
(* other lines contribute nothing.                                          *)
C33_ParseAcceptsValidLines ==
    lastOp = "parse" =>
        LET lines == SelectSeq(labelText, YieldsBox)
        IN  /\ Len(labelBoxes) = Len(lines)
            /\ \A i \in 1..Len(labelBoxes) :
                  /\ labelBoxes[i].classId * Unit <= lines[i][1].value + (Unit - 1)
                  /\ labelBoxes[i].classId * Unit + Unit > lines[i][1].value
                  /\ labelBoxes[i].xCenter = lines[i][2].value
                  /\ labelBoxes[i].yCenter = lines[i][3].value
                  /\ labelBoxes[i].width = lines[i][4].value
                  /\ labelBoxes[i].height = lines[i][5].value
                  /\ ~labelBoxes[i].deleted
                  /\ ~labelBoxes[i].selected
            /\ \A i, j \in 1..Len(labelBoxes) :
                  i # j => labelBoxes[i].id # labelBoxes[j].id

(* C33 witness: a file of two lines, the first with xCenter above 1, was    *)
(* parsed to the one box of its second line                                 *)
C33_Witness ==
    /\ lastOp = "parse"
    /\ Len(labelText) = 2
    /\ labelText[1] = [GoodLine EXCEPT ![2] = Num(Unit + 1)]
    /\ Len(labelBoxes) = 1
    /\ labelBoxes[1].lineIndex = 1
    /\ labelBoxes[1].classId = 2

(* C34: in the step in which doSaveCurrent commits after a successful save  *)
(* (nothing else being suspended), the session's current image is the image *)
(* saveLabels was called for, and its new baseline holds the boxes that     *)
(* were written, in their order.                                            *)
C34_SavedWhatWasWritten ==
    [][ \A call \in pending :
          (pending = {call} /\ doSaveCurrentResume(call, TRUE)) =>
              /\ currentIndex = call.index
              /\ call.index \in DOMAIN imageStates'
              /\ IdsInOrder(imageStates'[call.index].originalBoxes) = IdsInOrder(call.boxes)
      ]_vars

(* C35: whenever no call is suspended and main.js currentIndex is >= 0, the *)
(* session's current index is main.js currentIndex, and currentBitmap is    *)
(* the bitmap the image cache holds for that index, if it holds one.        *)
C35_SessionFollowsUi ==
    (pending = {} /\ uiIndex >= 0) =>
        /\ currentIndex = uiIndex
        /\ LruHas(imageCache, uiIndex) => currentBitmap = LruValue(imageCache, uiIndex)

(* an ImageEditState as markSaved leaves it *)
Committed(st) ==
    /\ st.undoStack = <<>>
    /\ st.redoStack = <<>>
    /\ \A i \in 1..Len(st.boxes) : ~st.boxes[i].deleted
    /\ IdsInOrder(st.originalBoxes) = IdsInOrder(st.boxes)

(* a step of doSaveAll's writable loop over the indices seq has saved and   *)
(* committed the first k of them, for a k of at least atLeast, and nothing  *)
(* else: they are outside the modified set, those that have a state are     *)
(* committed, every other image keeps its ImageEditState and its place in   *)
(* or outside the modified set; the call then waits for the save of the     *)
(* next index, or it is over, with indices left exactly when a saveLabels   *)
(* returned false                                                           *)
SaveAllStep(seq, atLeast) ==
    \E k \in atLeast..Len(seq) :
        LET saved == { seq[i] : i \in 1..k }
        IN  /\ \A i \in saved :
                  /\ i \notin globalModified'
                  /\ i \in DOMAIN imageStates => Committed(imageStates'[i])
            /\ DOMAIN imageStates' = DOMAIN imageStates
            /\ \A j \in DOMAIN imageStates \ saved : imageStates'[j] = imageStates[j]
            /\ globalModified' \ saved = globalModified \ saved
            /\ IF SavingAll'
               THEN /\ k < Len(seq)
                    /\ \E c \in pending' : c.op = "doSaveAll" /\ c.index = seq[k + 1]
               ELSE lastRet' = "failed" <=> k < Len(seq)

(* C36: in the writable branch of doSaveAll, the step in which an awaited   *)
(* saveLabels returned false changes neither an ImageEditState nor the      *)
(* modified set and ends the call (the failed image and those still to do   *)
(* keep their boxes, stacks and flags); every step of the loop, the first   *)
(* one and the one after a write that succeeded, commits the images saved   *)
(* in it, in order, and removes them from the modified set, touches no      *)
(* other image, and ends the call at the first saveLabels that returns      *)
(* false, with that image and those after it untouched.                     *)
C36_SaveAllStopsAtFailure ==
    [][ /\ \A order \in Orders(globalModified) :
             (~readOnly /\ doSaveAllStart(order)) => SaveAllStep(order, 0)
        /\ \A call \in pending :
             /\ doSaveAllResume(call, "failed") =>
                   /\ imageStates' = imageStates
                   /\ globalModified' = globalModified
                   /\ pending' = Resumed(pending, call)
             /\ (call.index # -1 /\ doSaveAllResume(call, "ok")) =>
                   SaveAllStep(<<call.index>> \o call.rest, 1)
      ]_vars

(* C36 witness: images 0 and 1 were modified, the save of 0 succeeded and   *)
(* the save of 1 returned false: 0 is committed without its box, 1 is still *)
(* modified with its tombstone and its undo entry                           *)
C36_Witness ==
    /\ ~readOnly
    /\ lastOp = "setCurrentIndex"
    /\ lastRet = "failed"
    /\ ~SavingAll
    /\ globalModified = {1}
    /\ DOMAIN imageStates = {0, 1}
    /\ Committed(imageStates[0])
    /\ imageStates[0].boxes = <<>>
    /\ Len(imageStates[1].undoStack) = 1
    /\ \E i \in 1..Len(imageStates[1].boxes) : imageStates[1].boxes[i].deleted

(* every working box has the deleted flag of the original box with its id *)
FlagsAsOriginal(st) ==
    \A i \in 1..Len(st.boxes) :
        \E j \in 1..Len(st.originalBoxes) :
            /\ st.originalBoxes[j].id = st.boxes[i].id
            /\ st.originalBoxes[j].deleted = st.boxes[i].deleted

(* C37: whenever undo() has just returned false, the working boxes carry    *)
(* the deleted flags of the original boxes and the image is not in the      *)
(* modified set.                                                            *)
C37_UndoAllAsStated ==
    [][ (lastOp' = "undo" /\ lastRet' = FALSE /\ HasState(currentIndex)) =>
            /\ FlagsAsOriginal(CurStateNext)
            /\ currentIndex \notin globalModified' ]_vars

(* no box of the sequence is both deleted and selected *)
NoDeletedSelected(boxes) ==
    \A i \in 1..Len(boxes) : ~(boxes[i].deleted /\ boxes[i].selected)

(* C38: in every ImageEditState no working box, no original box and no box  *)
(* of a recorded Action is both deleted and selected; restoreDeleted(true)  *)
(* returns 0 and changes nothing.                                           *)
C38_NeverDeletedAndSelected ==
    /\ [] ( \A index \in DOMAIN imageStates :
               /\ NoDeletedSelected(imageStates[index].boxes)
               /\ NoDeletedSelected(imageStates[index].originalBoxes)
               /\ \A k \in 1..Len(imageStates[index].undoStack) :
                     NoDeletedSelected(imageStates[index].undoStack[k].boxes)
               /\ \A k \in 1..Len(imageStates[index].redoStack) :
                     NoDeletedSelected(imageStates[index].redoStack[k].boxes) )
    /\ [][ restoreDeleted(TRUE) => (lastRet' = 0 /\ UNCHANGED smVars) ]_vars

(* C38 witness: restoreDeleted(true) was called on an image with a deleted  *)
(* box and a selected box, and restored nothing                             *)
C38_Witness ==
    /\ lastOp = "restoreDeleted"
    /\ lastRet = 0
    /\ HasState(currentIndex)
    /\ \E i \in 1..Len(CurState.boxes) : CurState.boxes[i].deleted
    /\ \E i \in 1..Len(CurState.boxes) : CurState.boxes[i].selected

(* every index of the modified set has an ImageEditState *)
ModifiedHaveState == globalModified \subseteq DOMAIN imageStates

(* C39: a new session has nothing modified, and every call other than a    *)
(* direct markModified() keeps every index of the modified set among the    *)
(* images with state; where that holds, the current image is not modified   *)
(* when it has no state; nothing is modified after clearAll.                *)
C39_ModifiedHaveState ==
    /\ [] ( /\ lastOp = "constructor" => ModifiedHaveState
            /\ (ModifiedHaveState /\ ~HasState(currentIndex)) => ~isCurrentModified
            /\ lastOp = "clearAll" => globalModified = {} )
    /\ [][ (ModifiedHaveState /\ lastOp' # "markModified") => ModifiedHaveState' ]_vars

(* C39 witness: clearImageState(0) removed the current image's state (and   *)
(* its flag) while image 1 is still modified                                *)
C39_Witness ==
    /\ lastOp = "clearImageState"
    /\ currentIndex = 0
    /\ DOMAIN imageStates = {1}
    /\ globalModified = {1}

====
